---- MODULE Spec2Model ----
(***************************************************************************)
(* Model of the genre pipeline of records/tools/ad_generator/ad_generator.py *)
(* (choose_broad_genre, load_records, per-artist majority, composite split, *)
(* tiny-genre merge, square grid rendering).                                *)
(*                                                                         *)
(* A Python str is a sequence of one-character strings; a Python dict is a  *)
(* sequence of [k, v] entries in insertion order.                           *)
(***************************************************************************)
EXTENDS Integers, Sequences, FiniteSets, TLC

VARIABLES
    raw,            \* argument of choose_broad_genre (genre-resolver runs)
    chosen,         \* its return value, NotCalled before the call
    inventory,      \* records array of the inventory JSON document, as its runs of equal
                    \* records [artist, genre, size]
    pc,             \* position of main()
    records,        \* list returned by load_records
    artist_major,   \* dict artist -> majority genre
    genre_map,      \* dict genre -> covers
    split,          \* dict genre -> covers after the composite split
    todo,           \* keys still to be visited by the running for-loop
    misc,           \* list misc
    big,            \* dict big
    files,          \* dict file name -> canvas written by create_single_square_grid
    seed,           \* state of the generator behind random.choice, -1 before it is read
    row,            \* argument row of choose_price: a dict of the price columns
    override_price, \* argument override_price of choose_price
    priced,         \* its return value [price, tag], NotPriced before the call
    releases,       \* argument releases of build_items_from_discogs
    floor,          \* argument floor, float(STORE_MIN_PRICE), in hundredths
    rows,           \* stats["rows"]: the releases the grouping loop has visited
    groups,         \* dict groups: key -> item
    by_key_rids,    \* dict by_key_rids: key -> release ids
    idx,            \* idx of the pricing loop
    items,          \* list items returned by build_items_from_discogs
    inv_json,       \* file store_inventory.json: its content is the document's items
    backups,        \* the backup files written next to it: name -> content
    source_rows,    \* rows of offline_gallery/records.csv
    line,           \* rows the csv reader of export_price_sheet has handed over
    years_by_key,   \* dict years_by_key of export_price_sheet
    price_file,     \* file pricing_overrides.csv: its content is the rows
    pricing_csv,    \* file pricing_overrides.csv as apply_store_prices finds it
    price_map,      \* dict price_map of apply_store_prices
    inv_raw,        \* raw of apply_store_prices: the inventory as read
    images,         \* argument images of create_single_square_grid, called on its own
    tile,           \* argument tile
    unreadable,     \* the cover files Image.open cannot decode
    document,       \* shape of the inventory JSON document: where its records array is
    client,         \* the client operation called: a method of Client or DiscogsClient
    delay,          \* self.delay of DiscogsClient, in milliseconds
    replies,        \* what the catalog API answers to the 1st, 2nd, ... request
    tries,          \* HTTP requests the call has issued
    last,           \* the answer to the latest request
    slept,          \* milliseconds the call slept after the latest answer
    result,         \* what the call returned or raised
    http_cache,     \* the entry of the call's key in the client's cache
    clock,          \* time.time(), in days since the first run
    ttl_days,       \* argument ttl_days of get_median
    by_release,     \* cache[str(release_id)]: the entry get_median keeps
    by_url,         \* cache[url]: the entry cached_http_get_json keeps
    served,         \* what the latest call of get_median returned, and when
    runs            \* the runs of apply_store_prices so far: exit code, inventory before

priceVars == <<row, override_price, priced>>

buildVars == <<releases, floor, rows, groups, by_key_rids, idx, items>>

fileVars == <<inv_json, backups>>

sheetVars == <<source_rows, line, years_by_key, price_file>>

applyVars == <<pricing_csv, price_map, inv_raw>>

storeVars == <<priceVars, buildVars, fileVars, sheetVars, applyVars>>

gridVars == <<images, tile, unreadable>>

\* the variables of the runs of one function or one client on its own
httpVars == <<client, delay, replies, tries, last, slept, result, http_cache>>

cacheVars == <<clock, ttl_days, by_release, by_url, served>>

auxVars == <<gridVars, document, httpVars, cacheVars, runs>>

vars == <<raw, chosen, inventory, pc, records, artist_major, genre_map,
          split, todo, misc, big, files, seed, storeVars, auxVars>>

pipeVars == <<inventory, pc, records, artist_major, genre_map,
              split, todo, misc, big, files, seed>>

\* the variables of the genre pipeline but pc
pipeData == <<inventory, records, artist_major, genre_map,
              split, todo, misc, big, files, seed>>

---------------------------------------------------------------------------
(* Bounds *)

MaxTokens == 3      \* tokens concatenated into one genre string
MaxItems == 3       \* entries of one genre list
MaxRecs == 3        \* records of a small inventory
MaxBlocks == 3      \* runs of equal records of a large inventory
MaxRels == 3        \* releases handed to build_items_from_discogs
MaxRows == 3        \* rows of records.csv
MaxStamp == 2       \* clock seconds now_ts() can return
MaxSeed == 1        \* largest seed of the random generator
MaxImgs == 5        \* images handed to create_single_square_grid called on its own
MaxReplies == 3     \* answers the catalog API has ready for one call
MaxClock == 6       \* days the runs of the store builder span
MaxRuns == 3        \* runs of apply_store_prices, one after the other
MaxShelf == 2       \* items of the inventory apply_store_prices finds

---------------------------------------------------------------------------
(* Python values *)

None == <<"<None>">>            \* the None object (no str equals it)
NotCalled == <<"<not called>">>

Max(a, b) == IF a >= b THEN a ELSE b

RECURSIVE Concat(_)
Concat(ss) == IF ss = <<>> THEN <<>> ELSE Head(ss) \o Concat(Tail(ss))

UpperChars == <<"A","B","C","D","E","F","G","H","I","J","K","L","M",
                "N","O","P","Q","R","S","T","U","V","W","X","Y","Z">>
LowerChars == <<"a","b","c","d","e","f","g","h","i","j","k","l","m",
                "n","o","p","q","r","s","t","u","v","w","x","y","z">>
DigitChars == <<"0","1","2","3","4","5","6","7","8","9">>
Whitespace == {" ", "\t", "\n"}

Range(f) == {f[i] : i \in DOMAIN f}

\* str.lower(), one character
LowerCh(c) ==
    IF c \in Range(UpperChars)
    THEN LowerChars[CHOOSE i \in 1..26 : UpperChars[i] = c]
    ELSE c

\* str.lower()
Lower(s) == [i \in 1..Len(s) |-> LowerCh(s[i])]

\* str.isalnum(), one character
IsAlnum(c) == c \in Range(UpperChars) \cup Range(LowerChars) \cup Range(DigitChars)

\* str.strip()
Strip(s) ==
    LET keep == {i \in 1..Len(s) : s[i] \notin Whitespace}
    IN IF keep = {} THEN <<>>
       ELSE LET lo == CHOOSE i \in keep : \A j \in keep : i <= j
                hi == CHOOSE i \in keep : \A j \in keep : i >= j
            IN SubSeq(s, lo, hi)

\* the Python test  sub in s
Contains(sub, s) ==
    \E i \in 0..(Len(s) - Len(sub)) : SubSeq(s, i + 1, i + Len(sub)) = sub

\* str.split(): the maximal runs of non-whitespace characters, in order
RECURSIVE SplitWs(_, _)
SplitWs(s, cur) ==
    IF s = <<>> THEN (IF cur = <<>> THEN <<>> ELSE <<cur>>)
    ELSE IF Head(s) \in Whitespace
         THEN (IF cur = <<>> THEN <<>> ELSE <<cur>>) \o SplitWs(Tail(s), <<>>)
         ELSE SplitWs(Tail(s), Append(cur, Head(s)))

\* sep.join(parts)
RECURSIVE Join(_, _)
Join(sep, parts) ==
    IF parts = <<>> THEN <<>>
    ELSE IF Len(parts) = 1 THEN parts[1]
    ELSE parts[1] \o sep \o Join(sep, Tail(parts))

s_pop == <<"p","o","p">>
s_folk == <<"f","o","l","k">>
s_country == <<"c","o","u","n","t","r","y">>
s_Pop == <<"P","o","p">>
s_Country == <<"C","o","u","n","t","r","y">>
s_Folk_World == <<"F","o","l","k","_","W","o","r","l","d">>
s_Misc == <<"M","i","s","c">>
s_Unknown == <<"U","n","k","n","o","w","n">>
s_folk_world_country ==
    <<"f","o","l","k","_","w","o","r","l","d","_","c","o","u","n","t","r","y">>

Separators == {",", "/", "&", ";", "|"}

---------------------------------------------------------------------------
(* choose_broad_genre.  A raw genre value is [isList, items]: a list of     *)
(* strings, or (isList = FALSE) the one string items[1].                    *)

StrRaw(s) == [isList |-> FALSE, items |-> <<s>>]
ListRaw(ss) == [isList |-> TRUE, items |-> ss]

\* mutant: the substring tests look at the strings as written, not lower-cased
choose_broad_genre_cased(r) ==
    IF r.isList
    THEN LET stripped == [i \in 1..Len(r.items) |-> Strip(r.items[i])]
             strs == SelectSeq(stripped, LAMBDA x : x # <<>>)
         IN IF Len(strs) > 1 /\ (\E i \in 1..Len(strs) : Contains(s_pop, strs[i]))
            THEN s_Pop
            ELSE IF /\ Len(strs) > 1
                    /\ \E i \in 1..Len(strs) : Contains(s_folk, strs[i])
                    /\ \E i \in 1..Len(strs) : Contains(s_country, strs[i])
            THEN s_Country
            ELSE IF strs # <<>> THEN strs[1] ELSE None
    ELSE LET s == Strip(r.items[1])
             multi == \E i \in 1..Len(s) : s[i] \in Separators
         IN IF s = <<>> THEN None
            ELSE IF multi /\ Contains(s_pop, s) THEN s_Pop
            ELSE IF multi /\ Contains(s_folk, s) /\ Contains(s_country, s)
            THEN s_Country
            ELSE s

\* mutant: the Folk+Country preference is applied to lists only, not to strings
choose_broad_genre_list_only(r) ==
    IF r.isList
    THEN LET stripped == [i \in 1..Len(r.items) |-> Strip(r.items[i])]
             strs == SelectSeq(stripped, LAMBDA x : x # <<>>)
             lows == [i \in 1..Len(strs) |-> Lower(strs[i])]
         IN IF Len(strs) > 1 /\ (\E i \in 1..Len(lows) : Contains(s_pop, lows[i]))
            THEN s_Pop
            ELSE IF /\ Len(strs) > 1
                    /\ \E i \in 1..Len(lows) : Contains(s_folk, lows[i])
                    /\ \E i \in 1..Len(lows) : Contains(s_country, lows[i])
            THEN s_Country
            ELSE IF strs # <<>> THEN strs[1] ELSE None
    ELSE LET s == Strip(r.items[1])
             low == Lower(s)
             multi == \E i \in 1..Len(s) : s[i] \in Separators
         IN IF s = <<>> THEN None
            ELSE IF multi /\ Contains(s_pop, low) THEN s_Pop
            ELSE s

\* mutant: a string is treated as multi-genre whether or not it has a separator
choose_broad_genre_no_sep(r) ==
    IF r.isList
    THEN LET stripped == [i \in 1..Len(r.items) |-> Strip(r.items[i])]
             strs == SelectSeq(stripped, LAMBDA x : x # <<>>)
             lows == [i \in 1..Len(strs) |-> Lower(strs[i])]
         IN IF Len(strs) > 1 /\ (\E i \in 1..Len(lows) : Contains(s_pop, lows[i]))
            THEN s_Pop
            ELSE IF /\ Len(strs) > 1
                    /\ \E i \in 1..Len(lows) : Contains(s_folk, lows[i])
                    /\ \E i \in 1..Len(lows) : Contains(s_country, lows[i])
            THEN s_Country
            ELSE IF strs # <<>> THEN strs[1] ELSE None
    ELSE LET s == Strip(r.items[1])
             low == Lower(s)
         IN IF s = <<>> THEN None
            ELSE IF Contains(s_pop, low) THEN s_Pop
            ELSE IF Contains(s_folk, low) /\ Contains(s_country, low)
            THEN s_Country
            ELSE s

choose_broad_genre(r) ==
    IF r.isList
    THEN LET stripped == [i \in 1..Len(r.items) |-> Strip(r.items[i])]
             strs == SelectSeq(stripped, LAMBDA x : x # <<>>)
             lows == [i \in 1..Len(strs) |-> Lower(strs[i])]
         IN IF Len(strs) > 1 /\ (\E i \in 1..Len(lows) : Contains(s_pop, lows[i]))
            THEN s_Pop
            ELSE IF /\ Len(strs) > 1
                    /\ \E i \in 1..Len(lows) : Contains(s_folk, lows[i])
                    /\ \E i \in 1..Len(lows) : Contains(s_country, lows[i])
            THEN s_Country
            ELSE IF strs # <<>> THEN strs[1] ELSE None
    ELSE LET s == Strip(r.items[1])
             low == Lower(s)
             multi == \E i \in 1..Len(s) : s[i] \in Separators
         IN IF s = <<>> THEN None
            ELSE IF multi /\ Contains(s_pop, low) THEN s_Pop
            ELSE IF multi /\ Contains(s_folk, low) /\ Contains(s_country, low)
            THEN s_Country
            ELSE s

normalize_genre_key(g) ==
    LET s == Lower(Strip(g))
        spaced == [i \in 1..Len(s) |-> IF IsAlnum(s[i]) THEN s[i] ELSE " "]
    IN Join(<<"_">>, SplitWs(spaced, <<>>))

\* str.strip("_")
StripUnderscore(s) ==
    LET keep == {i \in 1..Len(s) : s[i] # "_"}
    IN IF keep = {} THEN <<>>
       ELSE LET lo == CHOOSE i \in keep : \A j \in keep : i <= j
                hi == CHOOSE i \in keep : \A j \in keep : i >= j
            IN SubSeq(s, lo, hi)

safe_slug(name) ==
    LET mapped == [i \in 1..Len(name) |->
                     IF IsAlnum(name[i]) \/ name[i] \in {"_", "-"}
                     THEN name[i] ELSE "_"]
        t == StripUnderscore(mapped)
    IN IF t = <<>> THEN s_Unknown ELSE t

---------------------------------------------------------------------------
(* dict: a sequence of [k, v] entries in insertion order *)

DictHas(d, k) == \E i \in 1..Len(d) : d[i].k = k

DictIndex(d, k) == CHOOSE i \in 1..Len(d) : d[i].k = k

\* d.get(k, default)
DictGet(d, k, default) == IF DictHas(d, k) THEN d[DictIndex(d, k)].v ELSE default

\* d[k] = v
DictSet(d, k, v) ==
    IF DictHas(d, k)
    THEN [d EXCEPT ![DictIndex(d, k)] = [k |-> k, v |-> v]]
    ELSE Append(d, [k |-> k, v |-> v])

\* list(d.keys())
DictKeys(d) == [i \in 1..Len(d) |-> d[i].k]

---------------------------------------------------------------------------
(* load_records.  A record of the inventory is [artist, genre, img]:        *)
(* artist is the first truthy of the fields artist / artist_name / artists  *)
(* (None when there is none), genre the first truthy genre field, img the   *)
(* cover file, which is on disk.                                            *)

extract_artist(rec) ==
    IF rec.artist = None \/ rec.artist = <<>> THEN None ELSE Strip(rec.artist)

\* the test  if x  on a str or list
Truthy(r) == IF r.isList THEN r.items # <<>> ELSE r.items[1] # <<>>

\* the tuple load_records builds for one record; broad = None when it skips it
load_one(rec) ==
    LET broad == IF Truthy(rec.genre) THEN choose_broad_genre(rec.genre) ELSE None
        a == extract_artist(rec)
    IN [artist |-> IF a = <<>> THEN None ELSE a, broad |-> broad, img |-> rec.img]

load_records(inv) ==
    SelectSeq([i \in 1..Len(inv) |-> load_one(inv[i])], LAMBDA t : t.broad # None)

---------------------------------------------------------------------------
(* main(): per-artist majority genre *)

\* if not artist: continue; artist_counts[artist][broad] += 1
count_one(counts, r) ==
    IF r.artist = None THEN counts
    ELSE LET mine == DictGet(counts, r.artist, <<>>)
         IN DictSet(counts, r.artist, DictSet(mine, r.broad, DictGet(mine, r.broad, 0) + 1))

\* for artist, broad, _ in records[lo..hi], in source order.  The range is
\* halved so that the evaluation stays shallow; the first half is evaluated
\* (by the test on left) before the second half starts from its result.
RECURSIVE count_range(_, _, _, _)
count_range(recs, lo, hi, counts) ==
    IF lo > hi THEN counts
    ELSE IF lo = hi THEN count_one(counts, recs[lo])
    ELSE LET mid == (lo + hi) \div 2
             left == count_range(recs, lo, mid, counts)
         IN IF Len(left) >= 0 THEN count_range(recs, mid + 1, hi, left) ELSE left

count_artists(recs) == count_range(recs, 1, Len(recs), <<>>)

\* mutant: a tie goes to the entry met last
py_max_key_last(counts) ==
    LET best == CHOOSE i \in 1..Len(counts) :
                    /\ \A j \in 1..Len(counts) : counts[j].v <= counts[i].v
                    /\ \A j \in (i + 1)..Len(counts) : counts[j].v < counts[i].v
    IN counts[best].k

\* max(counts.items(), key=lambda kv: kv[1])[0]: the first entry of maximal count
py_max_key(counts) ==
    LET best == CHOOSE i \in 1..Len(counts) :
                    /\ \A j \in 1..Len(counts) : counts[j].v <= counts[i].v
                    /\ \A j \in 1..(i - 1) : counts[j].v < counts[i].v
    IN counts[best].k

compute_artist_major(recs) ==
    LET ac == count_artists(recs)
    IN [i \in 1..Len(ac) |-> [k |-> ac[i].k, v |-> py_max_key(ac[i].v)]]

\* mutant: the record's own genre is used, the artist's majority is ignored
final_genre_own(major, r) == r.broad

\* mutant: the majority of the next artist of the dict is looked up
final_genre_next(major, r) ==
    IF DictHas(major, r.artist)
    THEN major[(DictIndex(major, r.artist) % Len(major)) + 1].v
    ELSE r.broad

\* final_genre = artist_major.get(artist, broad)
final_genre(major, r) == DictGet(major, r.artist, r.broad)

\* mutant: the cover is put in front of the bucket
build_one_front(gm, major, r) ==
    DictSet(gm, final_genre(major, r),
            <<r.img>> \o DictGet(gm, final_genre(major, r), <<>>))

\* genre_map[final_genre].append(img_path)
build_one(gm, major, r) ==
    DictSet(gm, final_genre(major, r),
            Append(DictGet(gm, final_genre(major, r), <<>>), r.img))

\* for artist, broad, img_path in records[lo..hi], in source order (halved as above)
RECURSIVE build_range(_, _, _, _, _)
build_range(recs, major, lo, hi, gm) ==
    IF lo > hi THEN gm
    ELSE IF lo = hi THEN build_one(gm, major, recs[lo])
    ELSE LET mid == (lo + hi) \div 2
             left == build_range(recs, major, lo, mid, gm)
         IN IF Len(left) >= 0 THEN build_range(recs, major, mid + 1, hi, left) ELSE left

build_genre_map(recs, major) == build_range(recs, major, 1, Len(recs), <<>>)

---------------------------------------------------------------------------
(* main(): composite split, tiny-genre merge *)

TinyLimit == 36     \* if len(covers) < 36

\* mutant: the cut is not kept at 1 or more
split_cut_no_max(n) == (2 * n) \div 3

\* cut = max(1, (2 * n) // 3)
split_cut(n) == Max(1, (2 * n) \div 3)

\* d[k].extend(xs) on a defaultdict(list)
DictExtend(d, k, xs) == DictSet(d, k, DictGet(d, k, <<>>) \o xs)

\* mutant: a bucket that is no composite is stored under its normalized key
split_bucket_by_key(sp, g, covers) ==
    IF normalize_genre_key(g) = s_folk_world_country
    THEN LET cut == split_cut(Len(covers))
         IN DictExtend(DictExtend(sp, s_Folk_World, SubSeq(covers, 1, cut)),
                       s_Country, SubSeq(covers, cut + 1, Len(covers)))
    ELSE DictExtend(sp, normalize_genre_key(g), covers)

\* mutant: the last third of a composite bucket is not handed on
split_bucket_drop(sp, g, covers) ==
    IF normalize_genre_key(g) = s_folk_world_country
    THEN DictExtend(sp, s_Folk_World, SubSeq(covers, 1, split_cut(Len(covers))))
    ELSE DictExtend(sp, g, covers)

\* one iteration of  for g, covers in genre_map.items()
split_bucket(sp, g, covers) ==
    IF normalize_genre_key(g) = s_folk_world_country
    THEN LET cut == split_cut(Len(covers))
         IN DictExtend(DictExtend(sp, s_Folk_World, SubSeq(covers, 1, cut)),
                       s_Country, SubSeq(covers, cut + 1, Len(covers)))
    ELSE DictExtend(sp, g, covers)

\* mutant: a bucket of exactly 36 covers is tiny too
is_tiny_inclusive(covers) == Len(covers) <= TinyLimit

\* the test  len(covers) < 36
is_tiny(covers) == Len(covers) < TinyLimit

\* misc = []; big = {}; for g, covers in split.items(): ...
RECURSIVE merge_tiny(_, _, _)
merge_tiny(sp, m, b) ==
    IF sp = <<>> THEN [misc |-> m, big |-> b]
    ELSE IF is_tiny(Head(sp).v)
         THEN merge_tiny(Tail(sp), m \o Head(sp).v, b)
         ELSE merge_tiny(Tail(sp), m, DictSet(b, Head(sp).k, Head(sp).v))

---------------------------------------------------------------------------
(* sorted(big.items(), key=lambda kv: kv[0].lower()) *)

AsciiChars == <<"\t", "\n", " ", "&", ",", "-", "/">> \o DigitChars
              \o <<";", "<", ">">> \o UpperChars \o <<"_">> \o LowerChars \o <<"|">>

Ord(c) == CHOOSE i \in 1..Len(AsciiChars) : AsciiChars[i] = c

\* a < b on str
StrLess(a, b) ==
    \E i \in 1..(Len(a) + 1) :
        /\ \A j \in 1..(i - 1) : j <= Len(b) /\ a[j] = b[j]
        /\ i <= Len(b)
        /\ (i = Len(a) + 1 \/ Ord(a[i]) < Ord(b[i]))

\* stable insertion of key k into the sorted list ks
RECURSIVE InsertSorted(_, _)
InsertSorted(ks, k) ==
    IF ks = <<>> THEN <<k>>
    ELSE IF StrLess(Lower(k), Lower(Head(ks))) THEN <<k>> \o ks
    ELSE <<Head(ks)>> \o InsertSorted(Tail(ks), k)

RECURSIVE SortKeys(_, _)
SortKeys(ks, acc) ==
    IF ks = <<>> THEN acc ELSE SortKeys(Tail(ks), InsertSorted(acc, Head(ks)))

sorted_keys(d) == SortKeys(DictKeys(d), <<>>)

---------------------------------------------------------------------------
(* create_single_square_grid *)

Tile == 192         \* --tile default

\* math.ceil(math.sqrt(n))
CeilSqrt(n) == CHOOSE k \in 0..n : k * k >= n /\ (k = 0 \/ (k - 1) * (k - 1) < n)

\* mutant: the square root is rounded down
grid_side_floor(n) == Max(1, CHOOSE k \in 0..n : k * k <= n /\ (k + 1) * (k + 1) > n)

\* side = max(1, math.ceil(math.sqrt(n)))
grid_side(n) == Max(1, CeilSqrt(n))

\* the random generator, seeded by the system when the process starts (the model
\* draws the seed where main() is about to read it first): its next state, and
\* the index random.choice draws
NextRand(s) == (5 * s + 3) % 16
RandIndex(s, n) == (s % n) + 1

\* batch.append(random.choice(images)), k times
RECURSIVE RandAfter(_, _)
RandAfter(k, s) == IF k = 0 THEN s ELSE RandAfter(k - 1, NextRand(s))

PadCells(imgs, k, s) ==
    [i \in 1..k |-> imgs[RandIndex(RandAfter(i - 1, s), Len(imgs))]]

\* a cell of the canvas nothing was pasted into: it keeps the canvas colour
Background == 0

\* mutant: every image of the batch is pasted
paste_unchecked(batch, bad) == batch

\* for i, pth in enumerate(batch): the image is pasted into cell i, unless
\* opening or fitting it raises
paste(batch, bad) ==
    [i \in 1..Len(batch) |-> IF batch[i] \in bad THEN Background ELSE batch[i]]

\* the file written for a non-empty image list: its name and its canvas;
\* batch is the list the cells are painted from
grid_file(imgs, t, prefix, s, bad) ==
    LET n == Len(imgs)
        side == grid_side(n)
        need == side * side
        batch == imgs \o PadCells(imgs, need - n, s)
    IN [name |-> [prefix |-> prefix, cols |-> side, rows |-> side],
        canvas |-> [width |-> side * t, height |-> side * t, n |-> n,
                    batch |-> batch, cells |-> paste(batch, bad)]]

\* the render loop of main() over the sorted keys: the files it has written and
\* the generator's state after it (an empty image list writes nothing)
RECURSIVE render_all(_, _, _, _, _)
render_all(keys, bigd, fs, s, bad) ==
    IF keys = <<>> THEN [files |-> fs, seed |-> s]
    ELSE LET covers == DictGet(bigd, Head(keys), <<>>)
             f == grid_file(covers, Tile, safe_slug(Head(keys)), s, bad)
         IN IF covers = <<>>
            THEN render_all(Tail(keys), bigd, fs, s, bad)
            ELSE render_all(Tail(keys), bigd, DictSet(fs, f.name, f.canvas),
                            RandAfter(Len(f.canvas.cells) - Len(covers), s), bad)

---------------------------------------------------------------------------
(* Inputs *)

SeqsUpTo(S, n) == UNION {[1..k -> S] : k \in 0..n}

s_Jazz == <<"J","a","z","z">>
s_Blues == <<"B","l","u","e","s">>
s_Rock == <<"R","o","c","k">>
s_Folk == <<"F","o","l","k">>
s_World == <<"W","o","r","l","d">>
s_FWC == <<"F","o","l","k",","," ","W","o","r","l","d",","," ","&"," ",
           "C","o","u","n","t","r","y">>
s_FWC_slash == <<"F","o","l","k","/","W","o","r","l","d","/",
                 "C","o","u","n","t","r","y">>
s_FWC_plain == <<"F","o","l","k"," ","W","o","r","l","d"," ",
                 "C","o","u","n","t","r","y">>

\* genre strings: concatenations of at most MaxTokens of these
TagTokens == {s_Pop, s_pop, <<"P","O","P">>, s_Folk, s_folk, s_Country, s_Rock,
              <<" ">>, <<",">>, <<"/">>, <<"&">>, <<";">>, <<"|">>}

\* entries of genre lists
ItemStrings == {<<>>, <<" ">>, s_Pop, <<"P","O","P">>,
                <<"S","y","n","t","h","-","p","o","p">>,
                s_Folk, s_Country, <<"F","o","l","k"," ","C","o","u","n","t","r","y">>,
                s_Rock, s_FWC}

GenreInputs ==
    {StrRaw(Concat(t)) : t \in SeqsUpTo(TagTokens, MaxTokens)}
    \cup {StrRaw(s_FWC), StrRaw(s_FWC_slash), StrRaw(s_FWC_plain)}
    \cup {ListRaw(l) : l \in SeqsUpTo(ItemStrings, MaxItems)}

\* small inventories: every sequence of at most MaxRecs records
SmallArtists == {None, <<"A">>, <<"B"," ">>}
SmallGenres == {StrRaw(s_Jazz), StrRaw(s_Country), StrRaw(s_Folk_World),
                StrRaw(s_FWC), ListRaw(<<s_FWC>>)}

SmallInventories ==
    SeqsUpTo([artist : SmallArtists, genre : SmallGenres, size : {1}], MaxRecs)

\* large inventories: at most MaxBlocks runs of equal records, one run per genre,
\* each run without artist or by the one artist "A"
BlockGenres == {StrRaw(s_Jazz), StrRaw(s_Pop), StrRaw(s_Blues), ListRaw(<<s_FWC>>)}
BlockSizes == {5, 36, 40}
ArtistBlockSizes == {5, 30}
Blocks == [artist : {None}, genre : BlockGenres, size : BlockSizes]
          \cup [artist : {<<"A">>}, genre : BlockGenres, size : ArtistBlockSizes]

BigInventories ==
    {b \in SeqsUpTo(Blocks, MaxBlocks) :
        \A i, j \in 1..Len(b) : b[i].genre = b[j].genre => i = j}

\* large inventories whose genre labels differ in punctuation only: "Folk World"
\* next to the composite (whose first share goes to Folk_World), "Jazz." next to
\* "Jazz"
s_Folk_sp_World == <<"F","o","l","k"," ","W","o","r","l","d">>
s_Jazz_dot == <<"J","a","z","z",".">>

SlugGenres ==
    {StrRaw(s_Folk_sp_World), ListRaw(<<s_FWC>>), StrRaw(s_Jazz), StrRaw(s_Jazz_dot)}

\* runs without artist, and short runs by the one artist "A"
SlugBlocks ==
    [artist : {None}, genre : SlugGenres, size : {5, 36, 54}]
    \cup [artist : {<<"A">>}, genre : SlugGenres, size : {5}]

SlugInventories ==
    {b \in SeqsUpTo(SlugBlocks, MaxBlocks) :
        \A i, j \in 1..Len(b) : b[i].genre = b[j].genre => i = j}

\* the records of the runs, one after the other
RECURSIVE Expand(_)
Expand(blocks) ==
    IF blocks = <<>> THEN <<>>
    ELSE [i \in 1..Head(blocks).size |->
             [artist |-> Head(blocks).artist, genre |-> Head(blocks).genre]]
         \o Expand(Tail(blocks))

\* the cover file of the i-th record is file i
WithImages(rs) ==
    [i \in 1..Len(rs) |-> [artist |-> rs[i].artist, genre |-> rs[i].genre, img |-> i]]

\* records_src: the records array of the document
records_src == WithImages(Expand(inventory))

\* The document is an object that holds the array under the key document.key,
\* or it is the array itself.
DocObject(key) == [kind |-> "object", key |-> key]
DocArray == [kind |-> "array", key |-> "<none>"]

\* raw.get("records") or raw.get("items") or raw.get("data") or raw, followed by
\* the isinstance test: the list the loop runs over.  A list has no method get:
\* the call raises AttributeError.  An empty array under the key is falsy, and
\* an object without one of the three keys has none: the or-chain ends at raw,
\* which is no list, and load_records returns [].
s_AttributeError == "AttributeError"

source_of(doc, arr) ==
    IF doc.kind = "array" THEN [raised |-> s_AttributeError, list |-> <<>>]
    ELSE IF doc.key \in {"records", "items", "data"}
         THEN [raised |-> "", list |-> arr]
         ELSE [raised |-> "", list |-> <<>>]

DocShapes ==
    {DocObject(k) : k \in {"records", "items", "data", "rows"}} \cup {DocArray}

---------------------------------------------------------------------------
(* Python values of the store scripts: None, str, int and float.  A float   *)
(* is held in hundredths (n = 40 is 0.4); s names the non-finite floats.    *)

PyNone == [t |-> "none", s |-> <<>>, n |-> 0]
PyStr(x) == [t |-> "str", s |-> x, n |-> 0]
PyInt(k) == [t |-> "int", s |-> <<>>, n |-> k]
PyFloat(h) == [t |-> "float", s |-> <<>>, n |-> h]
PyInf == [t |-> "float", s |-> <<"i","n","f">>, n |-> 0]
PyNegInf == [t |-> "float", s |-> <<"-","i","n","f">>, n |-> 0]
PyNan == [t |-> "float", s |-> <<"n","a","n">>, n |-> 0]
PyRaise(x) == [t |-> "raise", s |-> x, n |-> 0]

s_ValueError == <<"V","a","l","u","e","E","r","r","o","r">>
s_OverflowError == <<"O","v","e","r","f","l","o","w","E","r","r","o","r">>

\* bool(v)
Truth(v) ==
    CASE v.t = "none" -> FALSE
      [] v.t = "str" -> v.s # <<>>
      [] v.t = "int" -> v.n # 0
      [] v.t = "float" -> v.s # <<>> \/ v.n # 0

\* a or b or c
Or3(a, b, c) == IF Truth(a) THEN a ELSE IF Truth(b) THEN b ELSE c

DigitVal(c) == (CHOOSE i \in 1..10 : DigitChars[i] = c) - 1

RECURSIVE DigitsVal(_)
DigitsVal(ds) ==
    IF ds = <<>> THEN 0
    ELSE DigitsVal(SubSeq(ds, 1, Len(ds) - 1)) * 10 + DigitVal(ds[Len(ds)])

\* the first two decimals of a fraction digit string, in hundredths
Hundredths(fs) ==
    (IF Len(fs) >= 1 THEN DigitVal(fs[1]) * 10 ELSE 0)
    + (IF Len(fs) >= 2 THEN DigitVal(fs[2]) ELSE 0)

\* float(str) of an unsigned literal: digits, digits., digits.digits, .digits,
\* inf, infinity, nan (any letter case); anything else raises ValueError.
\* Exponents and digit-group underscores are not among the inputs drawn.
py_float_unsigned(u) ==
    LET dots == {i \in 1..Len(u) : u[i] = "."}
        allNum == \A i \in 1..Len(u) : u[i] \in Range(DigitChars) \cup {"."}
        dot == IF dots = {} THEN Len(u) + 1 ELSE CHOOSE i \in dots : TRUE
        ip == SubSeq(u, 1, dot - 1)
        fp == SubSeq(u, dot + 1, Len(u))
    IN IF Lower(u) \in {<<"i","n","f">>, <<"i","n","f","i","n","i","t","y">>} THEN PyInf
       ELSE IF Lower(u) = <<"n","a","n">> THEN PyNan
       ELSE IF allNum /\ Cardinality(dots) <= 1 /\ Len(ip) + Len(fp) >= 1
            THEN PyFloat(DigitsVal(ip) * 100 + Hundredths(fp))
            ELSE PyRaise(s_ValueError)

\* float(str): surrounding whitespace is ignored, one sign is allowed
py_float(x) ==
    LET t == Strip(x)
        signed == t # <<>> /\ t[1] \in {"+", "-"}
        u == py_float_unsigned(IF signed THEN Tail(t) ELSE t)
    IN IF signed /\ t[1] = "-"
       THEN (IF u.t = "float"
             THEN (IF u = PyInf THEN PyNegInf ELSE [u EXCEPT !.n = 0 - u.n])
             ELSE u)
       ELSE u

\* str.replace("$", "")
RemoveDollar(x) == SelectSeq(x, LAMBDA c : c # "$")

\* v > 0 for a float
IsPositive(v) == v.t = "float" /\ (v = PyInf \/ (v.s = <<>> /\ v.n > 0))

\* round(v) of a float held in hundredths: to the nearest integer, a tie to the
\* even one; OverflowError for an infinity
py_round(v) ==
    IF v.s # <<>> THEN PyRaise(s_OverflowError)
    ELSE LET q == v.n \div 100
             r == v.n % 100
         IN PyInt(IF r < 50 THEN q
                  ELSE IF r > 50 THEN q + 1
                  ELSE IF q % 2 = 0 THEN q ELSE q + 1)

---------------------------------------------------------------------------
(* backup/store/store.py *)

DEFAULT_PRICE == 9

\* str(val) followed by float(): an int or a float gives the float of the same value
safe_float(val) ==
    CASE val.t = "none" -> PyNone
      [] val.t = "int" -> PyFloat(val.n * 100)
      [] val.t = "float" -> val
      [] val.t = "str" ->
            LET x == RemoveDollar(Strip(val.s))
            IN IF x = <<>> THEN PyNone
               ELSE LET f == py_float(x)
                    IN IF f.t = "raise" THEN PyNone ELSE f

\* the value choose_price reads for the median / for the highest sold price
median_arg(r) == Or3(r.median, r.discogs_median, r.median_price)
high_arg(r) == Or3(r.high_sold, r.discogs_high, r.high_price)

\* choose_price(row, override_price): [price, tag], or the exception it raises
choose_price(r, ov) ==
    IF ov # PyNone THEN [price |-> ov, tag |-> "override"]
    ELSE LET median_val == safe_float(median_arg(r))
             high_val == safe_float(high_arg(r))
         IN IF median_val # PyNone /\ IsPositive(median_val)
            THEN (IF py_round(median_val).t = "raise"
                  THEN [price |-> py_round(median_val), tag |-> "<raised>"]
                  ELSE [price |-> py_round(median_val), tag |-> "median"])
            ELSE IF high_val # PyNone /\ IsPositive(high_val)
            THEN (IF py_round(high_val).t = "raise"
                  THEN [price |-> py_round(high_val), tag |-> "<raised>"]
                  ELSE [price |-> py_round(high_val), tag |-> "high_sold"])
            ELSE [price |-> PyInt(DEFAULT_PRICE), tag |-> "default"]

NotPriced == [price |-> PyNone, tag |-> "<not called>"]

\* price cells as the CSV reader or a JSON document hands them over
PriceStrings ==
    { <<>>, <<" ">>, <<"a","b","c">>, <<"0">>, <<"-","3">>, <<"0",".","4">>,
      <<"0",".","5">>, <<"1",".","5">>, <<"2",".","5">>, <<"1","2">>,
      <<"$","1","5">>, <<" ","7"," ">>, <<"i","n","f">>, <<"n","a","n">> }

PriceValues == {PyNone, PyInt(0), PyFloat(40)} \cup {PyStr(x) : x \in PriceStrings}

PriceRows ==
    [ median : PriceValues,
      discogs_median : {PyNone, PyStr(<<>>), PyStr(<<"3">>)},
      median_price : {PyNone, PyStr(<<"4">>)},
      high_sold : PriceValues,
      discogs_high : {PyNone, PyStr(<<"0",".","4">>)},
      high_price : {PyNone, PyStr(<<"6">>)} ]

Overrides == {PyNone, PyStr(<<>>), PyStr(<<"1","5">>), PyStr(<<"0">>)}

PriceIdle ==
    /\ row = [k \in {"median", "discogs_median", "median_price",
                     "high_sold", "discogs_high", "high_price"} |-> PyNone]
    /\ override_price = PyNone
    /\ priced = NotPriced

---------------------------------------------------------------------------
(* store/store.py and store/store_data.py: build_items_from_discogs.  The   *)
(* two copies group and price alike; store_data.py adds the year and the    *)
(* downloaded image to an item.                                              *)

\* str(n) of an int
RECURSIVE NatStr(_)
NatStr(n) ==
    IF n < 10 THEN <<DigitChars[n + 1]>>
    ELSE NatStr(n \div 10) \o <<DigitChars[(n % 10) + 1]>>

IntStr(n) == IF n < 0 THEN <<"-">> \o NatStr(0 - n) ELSE NatStr(n)

\* int(v): the int, or the exception
py_int(v) ==
    CASE v.t = "int" -> v
      [] v.t = "str" ->
            LET x == Strip(v.s)
            IN IF x # <<>> /\ \A i \in 1..Len(x) : x[i] \in Range(DigitChars)
               THEN PyInt(DigitsVal(x))
               ELSE PyRaise(s_ValueError)
      [] OTHER -> PyRaise(s_ValueError)

\* _norm(s)
norm(v) ==
    CASE v.t = "none" -> <<>>
      [] v.t = "str" -> Strip(v.s)
      [] v.t = "int" -> IntStr(v.n)

\* re.sub(r"\s+", " ", s)
RECURSIVE re_sub_ws(_, _)
re_sub_ws(x, inRun) ==
    IF x = <<>> THEN <<>>
    ELSE IF Head(x) \in Whitespace
         THEN (IF inRun THEN <<>> ELSE <<" ">>) \o re_sub_ws(Tail(x), TRUE)
         ELSE <<Head(x)>> \o re_sub_ws(Tail(x), FALSE)

\* _norm_key(s)
norm_key(v) == re_sub_ws(Lower(norm(v)), FALSE)

\* _make_key(artist, title)
make_key(artist, title) == norm_key(PyStr(artist)) \o <<"|">> \o norm_key(PyStr(title))

s_available == <<"a","v","a","i","l","a","b","l","e">>

\* the item a release opens its group with
new_item(key, r, rid_i) ==
    [ key |-> key,
      artist |-> norm(r.artist),
      title |-> norm(r.title),
      country |-> norm(r.country),
      label |-> norm(r.label),
      catno |-> norm(r.catno),
      format |-> norm(r.format),
      rid |-> IntStr(rid_i),
      img |-> norm(r.image),
      price |-> <<>>,
      status |-> s_available,
      condition |-> <<>>,
      sleeve_condition |-> <<>>,
      notes |-> <<>> ]

\* one iteration of `for r in releases`: [groups, by_key_rids] after it
group_one(g, rids, r) ==
    IF r.id = PyNone \/ py_int(r.id).t = "raise"
    THEN [groups |-> g, by_key_rids |-> rids]
    ELSE LET rid_i == py_int(r.id).n
             key == make_key(norm(r.artist), norm(r.title))
         IN [ groups |-> IF DictHas(g, key) THEN g
                         ELSE DictSet(g, key, new_item(key, r, rid_i)),
              by_key_rids |-> DictSet(rids, key, Append(DictGet(rids, key, <<>>), rid_i)) ]

\* the price of one group from suggested (the price suggestion found, or None)
\* and median (what get_median returned, or None), in hundredths
group_price(suggested, median, fl) ==
    IF suggested # PyNone
    THEN (IF suggested.n < fl THEN fl ELSE suggested.n)
    ELSE IF median = PyNone THEN fl
    ELSE IF median.n < fl THEN fl ELSE median.n

\* str(int(round(price)))
price_str(price) == IntStr(py_round(PyFloat(price)).n)

\* stable insertion of item x into xs sorted by (artist.lower(), title.lower())
ItemLess(a, b) ==
    \/ StrLess(Lower(a.artist), Lower(b.artist))
    \/ Lower(a.artist) = Lower(b.artist) /\ StrLess(Lower(a.title), Lower(b.title))

RECURSIVE InsertItem(_, _)
InsertItem(xs, x) ==
    IF xs = <<>> THEN <<x>>
    ELSE IF ItemLess(x, Head(xs)) THEN <<x>> \o xs
    ELSE <<Head(xs)>> \o InsertItem(Tail(xs), x)

RECURSIVE SortItems(_, _)
SortItems(xs, acc) ==
    IF xs = <<>> THEN acc ELSE SortItems(Tail(xs), InsertItem(acc, Head(xs)))

\* items = list(groups.values()); items.sort(...)
sorted_items(g) == SortItems([i \in 1..Len(g) |-> g[i].v], <<>>)

\* a file of the site or data directory: absent, or present with its content
NoFile == [exists |-> FALSE, content |-> <<>>]
File(c) == [exists |-> TRUE, content |-> c]

\* releases of the collection, as basic_information hands them over
s_Ab == <<"A"," ","b">>
s_ab_wide == <<" ","a"," "," ","B"," ">>
s_C == <<"C">>
s_X == <<"X">>
s_x_sp == <<"x"," ">>
s_L == <<"L">>
s_M == <<"M">>

Optionals ==
    { [label |-> PyNone, image |-> PyStr(<<>>)],
      [label |-> PyStr(s_L), image |-> PyStr(<<"u">>)],
      [label |-> PyStr(s_M), image |-> PyStr(<<>>)] }

ReleaseShapes ==
    { [ artist |-> PyStr(a), title |-> PyStr(s_X), label |-> o.label, catno |-> o.label,
        format |-> o.label, country |-> o.label, image |-> o.image ] :
          a \in {s_Ab, s_ab_wide, s_C}, o \in Optionals }
    \cup { [ artist |-> PyStr(s_Ab), title |-> PyStr(s_x_sp), label |-> PyStr(s_M),
             catno |-> PyNone, format |-> PyNone, country |-> PyNone,
             image |-> PyStr(<<"v">>) ] }

\* release ids: main() hands over a list without repeated ids
IdsAt(i) ==
    {PyInt(i)} \cup (IF i = 2 THEN {PyNone, PyStr(s_X), PyStr(<<"1","2">>)} ELSE {})

WithId(shape, id) ==
    [ id |-> id, artist |-> shape.artist, title |-> shape.title, label |-> shape.label,
      catno |-> shape.catno, format |-> shape.format, country |-> shape.country,
      image |-> shape.image ]

\* the lists of at most n releases
ReleaseLists(n) ==
    UNION { { [i \in 1..k |-> WithId(sh[i], ids[i])] :
                sh \in [1..k -> ReleaseShapes],
                ids \in { f \in [1..k -> UNION {IdsAt(i) : i \in 1..k}] :
                            \A i \in 1..k : f[i] \in IdsAt(i) } } : k \in 0..n }

\* STORE_MIN_PRICE: 5 (the default), 9.5, 10.5
Floors == {500, 950, 1050}

\* what the two lookups give for one group: the price suggestion, the median
Quotes ==
    [suggested : {PyFloat(300), PyFloat(1050), PyFloat(2000)}, median : {PyNone}]
    \cup [suggested : {PyNone}, median : {PyNone, PyFloat(300), PyFloat(1260)}]

BuildIdle ==
    /\ releases = <<>>
    /\ floor = 500
    /\ rows = 0
    /\ groups = <<>>
    /\ by_key_rids = <<>>
    /\ idx = 1
    /\ items = <<>>

FilesIdle ==
    /\ inv_json = NoFile
    /\ backups = <<>>

---------------------------------------------------------------------------
(* backup/store/export_price_sheet.py *)

s_for_sale == <<"f","o","r"," ","s","a","l","e">>

\* _norm(s) of a csv cell
sheet_norm(x) == Strip(x)

\* _key_artist_title(artist, title)
key_artist_title(artist, title) ==
    re_sub_ws(Lower(Strip(artist)), FALSE) \o <<"|","|">>
    \o re_sub_ws(Lower(Strip(title)), FALSE)

\* re.sub(r"\.0$", "", s)
StripDotZero(x) ==
    IF Len(x) >= 2 /\ SubSeq(x, Len(x) - 1, Len(x)) = <<".","0">>
    THEN SubSeq(x, 1, Len(x) - 2) ELSE x

\* _safe_int_year(y): the year, or None
safe_int_year(y) ==
    LET x == StripDotZero(Strip(y))
    IN IF x = <<>> \/ \E i \in 1..Len(x) : x[i] \notin Range(DigitChars) THEN PyNone
       ELSE IF DigitsVal(x) < 1800 \/ DigitsVal(x) > 2100 THEN PyNone
       ELSE PyInt(DigitsVal(x))

\* _choose_year(years): min of the ints, or None
choose_year(years) ==
    LET ys == {years[i].n : i \in {j \in 1..Len(years) : years[j] # PyNone}}
    IN IF ys = {} THEN PyNone ELSE PyInt(CHOOSE y \in ys : \A z \in ys : y <= z)

\* the three `continue` tests of the reader loop: the row is kept
sheet_keeps(r) ==
    /\ Lower(sheet_norm(r.folder)) = s_for_sale
    /\ sheet_norm(r.release_id) # <<>>
    /\ ~(sheet_norm(r.artist) = <<>> /\ sheet_norm(r.title) = <<>>)

\* mutant: a repeated key overwrites the ids instead of appending
sheet_group_overwrite(g, key, r) ==
    IF ~DictHas(g, key)
    THEN DictSet(g, key,
           [ key |-> key, artist |-> sheet_norm(r.artist), title |-> sheet_norm(r.title),
             year |-> <<>>, qty |-> 1, variant_release_ids |-> sheet_norm(r.release_id),
             price |-> <<>>, status |-> <<>>, condition |-> <<>>,
             sleeve_condition |-> <<>>, notes |-> <<>> ])
    ELSE LET old == DictGet(g, key, <<>>)
         IN DictSet(g, key,
              [old EXCEPT !.qty = old.qty + 1,
                          !.variant_release_ids = sheet_norm(r.release_id)])

\* if key not in groups: ... else: qty + 1, ids + " " + rid
sheet_group(g, key, r) ==
    IF ~DictHas(g, key)
    THEN DictSet(g, key,
           [ key |-> key, artist |-> sheet_norm(r.artist), title |-> sheet_norm(r.title),
             year |-> <<>>, qty |-> 1, variant_release_ids |-> sheet_norm(r.release_id),
             price |-> <<>>, status |-> <<>>, condition |-> <<>>,
             sleeve_condition |-> <<>>, notes |-> <<>> ])
    ELSE LET old == DictGet(g, key, <<>>)
         IN DictSet(g, key,
              [old EXCEPT !.qty = old.qty + 1,
                          !.variant_release_ids =
                              old.variant_release_ids \o <<" ">> \o sheet_norm(r.release_id)])

\* one iteration of `for row in reader`: [groups, years_by_key] after it
sheet_one(g, years, r) ==
    IF ~sheet_keeps(r) THEN [groups |-> g, years_by_key |-> years]
    ELSE LET key == key_artist_title(sheet_norm(r.artist), sheet_norm(r.title))
         IN [ groups |-> sheet_group(g, key, r),
              years_by_key |->
                  DictSet(years, key,
                          Append(DictGet(years, key, <<>>), safe_int_year(sheet_norm(r.year)))) ]

\* load_existing(path): key -> the five editable cells, stripped
load_existing(f) ==
    IF ~f.exists THEN <<>>
    ELSE LET kept == SelectSeq(f.content, LAMBDA r : sheet_norm(r.key) # <<>>)
         IN [i \in 1..Len(kept) |->
               [ k |-> sheet_norm(kept[i].key),
                 v |-> [ price |-> sheet_norm(kept[i].price),
                         status |-> sheet_norm(kept[i].status),
                         condition |-> sheet_norm(kept[i].condition),
                         sleeve_condition |-> sheet_norm(kept[i].sleeve_condition),
                         notes |-> sheet_norm(kept[i].notes) ] ]]

\* the row written for group g: its year, the cells of existing that are not empty
sheet_row(g, years, ex) ==
    LET y == choose_year(DictGet(years, g.key, <<>>))
        e == DictGet(ex, g.key, [price |-> <<>>, status |-> <<>>, condition |-> <<>>,
                                 sleeve_condition |-> <<>>, notes |-> <<>>])
    IN [ g EXCEPT !.year = IF y # PyNone /\ y.n # 0 THEN IntStr(y.n) ELSE <<>>,
                  !.price = IF e.price # <<>> THEN e.price ELSE @,
                  !.status = IF e.status # <<>> THEN e.status ELSE @,
                  !.condition = IF e.condition # <<>> THEN e.condition ELSE @,
                  !.sleeve_condition = IF e.sleeve_condition # <<>> THEN e.sleeve_condition ELSE @,
                  !.notes = IF e.notes # <<>> THEN e.notes ELSE @ ]

\* rows, sorted by (artist.lower(), title.lower()), as the csv writer writes them
sheet_rows(g, years, ex) ==
    LET sorted == SortItems([i \in 1..Len(g) |-> sheet_row(g[i].v, years, ex)], <<>>)
    IN [i \in 1..Len(sorted) |-> [sorted[i] EXCEPT !.qty = IntStr(sorted[i].qty)]]

s_For_Sale == <<"F","o","r"," ","S","a","l","e">>
s_FOR_SALE_sp == <<"F","O","R"," ","S","A","L","E"," ">>
s_For_Sale_LPs == <<"F","o","r"," ","S","a","l","e"," ","-"," ","L","P","s">>
s_Keep == <<"K","e","e","p">>
s_1969 == <<"1","9","6","9">>

\* rows of records.csv, but for the release id
SheetShapes ==
    { [folder |-> s_For_Sale, artist |-> s_Ab, title |-> s_X, year |-> s_1969],
      [folder |-> s_FOR_SALE_sp, artist |-> s_ab_wide, title |-> s_x_sp,
       year |-> <<"1","9","6","5",".","0">>],
      [folder |-> s_For_Sale_LPs, artist |-> s_Ab, title |-> s_X, year |-> <<>>],
      [folder |-> s_Keep, artist |-> s_C, title |-> s_X, year |-> s_1969],
      [folder |-> s_For_Sale, artist |-> s_C, title |-> s_X, year |-> <<"a","b","c">>],
      [folder |-> s_For_Sale, artist |-> <<>>, title |-> <<>>, year |-> <<>>],
      [folder |-> s_For_Sale, artist |-> <<"C","|">>, title |-> s_X,
       year |-> <<"1","7","0","0">>],
      [folder |-> s_For_Sale, artist |-> s_C, title |-> <<"|","X">>, year |-> <<>>] }

SheetIdsAt(i) == {NatStr(i)} \cup (IF i = 2 THEN {<<>>, <<"1">>} ELSE {})

SheetLists ==
    UNION { { [i \in 1..k |->
                 [ folder |-> sh[i].folder, release_id |-> ids[i], artist |-> sh[i].artist,
                   title |-> sh[i].title, year |-> sh[i].year ]] :
                sh \in [1..k -> SheetShapes],
                ids \in { f \in [1..k -> UNION {SheetIdsAt(i) : i \in 1..k}] :
                            \A i \in 1..k : f[i] \in SheetIdsAt(i) } } : k \in 0..MaxRows }

\* pricing_overrides.csv as an earlier run and the owner left it
PriceFiles ==
    { NoFile,
      File(<< [ key |-> <<"a"," ","b","|","|","x">>, price |-> <<"1","5">>,
                status |-> <<>>, condition |-> <<" ","V","G">>,
                sleeve_condition |-> <<>>, notes |-> <<>> ] >>) }

SheetIdle ==
    /\ source_rows = <<>>
    /\ line = 0
    /\ years_by_key = <<>>
    /\ price_file = NoFile

---------------------------------------------------------------------------
(* backup/store/apply_store_prices.py *)

s_marker == <<"P","R","I","C","E","_","A","P","P","L","I","E","D","_","F","R","O","M","_","O","V","E","R","R","I","D","E","S">>

\* it.get(f) or "": an item is a record of str cells, a key may be missing
ItemGet(it, f) == IF f \in DOMAIN it THEN it[f] ELSE <<>>

\* it[f] = v
ItemSet(it, f, v) == [g \in DOMAIN it \cup {f} |-> IF g = f THEN v ELSE it[g]]

\* str.strip(chars)
StripChars(x, chars) ==
    LET keep == {i \in 1..Len(x) : x[i] \notin chars}
    IN IF keep = {} THEN <<>>
       ELSE LET lo == CHOOSE i \in keep : \A j \in keep : i <= j
                hi == CHOOSE i \in keep : \A j \in keep : i >= j
            IN SubSeq(x, lo, hi)

\* load_pricing_overrides(path): rid -> {price, notes} for the rows with an id
\* and a price; a later row of the same id replaces the earlier one
RECURSIVE load_pricing_overrides(_, _)
load_pricing_overrides(csv, out) ==
    IF csv = <<>> THEN out
    ELSE LET r == Head(csv)
             rid == Strip(r.variant_release_ids)
             price == Strip(r.price)
         IN load_pricing_overrides(
                Tail(csv),
                IF rid # <<>> /\ price # <<>>
                THEN DictSet(out, rid, [price |-> price, notes |-> Strip(r.notes)])
                ELSE out)

\* the notes of an item whose price was replaced
marked_notes(old_notes) ==
    IF Contains(s_marker, old_notes) THEN old_notes
    ELSE IF old_notes # <<>>
         THEN StripChars(old_notes \o <<" ","|"," ">> \o s_marker, {" ", "|"})
         ELSE s_marker

\* one iteration of `for it in items`
apply_item(it, pm) ==
    LET rid1 == Strip(ItemGet(it, "variant_release_ids"))
        rid == IF rid1 # <<>> THEN rid1 ELSE Strip(ItemGet(it, "release_id"))
    IN IF rid = <<>> \/ ~DictHas(pm, rid) THEN it
       ELSE LET old_price == Strip(ItemGet(it, "price"))
                new_price == Strip(DictGet(pm, rid, <<>>).price)
            IN IF new_price = <<>> \/ old_price = new_price THEN it
               ELSE ItemSet(ItemSet(it, "price", new_price), "notes",
                            IF Contains(s_marker, Strip(ItemGet(it, "notes")))
                            THEN ItemGet(it, "notes")
                            ELSE marked_notes(Strip(ItemGet(it, "notes"))))

apply_items(its, pm) == [i \in 1..Len(its) |-> apply_item(its[i], pm)]

\* pricing_overrides.csv as the owner edited it
OverrideRow(artist, title, ids, price, status, notes) ==
    [ artist |-> artist, title |-> title, variant_release_ids |-> ids, price |-> price,
      status |-> status, condition |-> <<>>, sleeve_condition |-> <<>>, notes |-> notes ]

s_sold == <<"s","o","l","d">>

PricingCsvs ==
    { NoFile,
      File(<<>>),
      File(<< OverrideRow(s_Ab, s_X, <<"1">>, <<"1","5">>, s_sold, <<>>) >>),
      File(<< OverrideRow(s_C, s_X, <<"1"," ","2">>, <<" ","7">>, <<>>, <<"n">>),
              OverrideRow(s_Ab, s_X, <<"2">>, <<>>, s_sold, <<>>) >>) }

ApplyIdle ==
    /\ pricing_csv = NoFile
    /\ price_map = <<>>
    /\ inv_raw = <<>>

---------------------------------------------------------------------------
(* hunt/hunt.py Client.get_release, hunt/hunt_build_top_sellers.py          *)
(* DiscogsClient.search_year_page and get_price_suggestions.  An answer is  *)
(* [status, retry_after]: status 0 is a network error (session.get raises), *)
(* retry_after the Retry-After header, PyNone when the answer has none.     *)
(* Times are in milliseconds.                                               *)

NetworkError == [status |-> 0, retry_after |-> PyNone]
Answer(status, h) == [status |-> status, retry_after |-> h]
NoAnswer == [status |-> -1, retry_after |-> PyNone]

max_tries == 3          \* range(3), max_tries = 3

\* base_sleep = max(self.delay, 0.7)
base_sleep(d) == Max(d, 700)

\* what one iteration of the loop does with an answer: the sleep, then continue
\* (next = "continue"), return (next = "return", out the value) or raise
Step(sleep, next, out) == [sleep |-> sleep, next |-> next, out |-> out]

\* Client.get_release, one iteration
get_release(a) ==
    IF a.status = 0 THEN Step(2000, "continue", "")
    ELSE IF a.status = 429
         THEN LET w == py_int(IF a.retry_after = PyNone THEN PyStr(<<"5">>)
                              ELSE a.retry_after)
              IN IF w.t = "raise" THEN Step(0, "raise", "ValueError")
                 ELSE Step((w.n + 1) * 1000, "continue", "")
    ELSE IF a.status >= 400 THEN Step(0, "return", "empty")
    ELSE Step(0, "return", "data")

\* DiscogsClient.search_year_page, iteration attempt
search_year_page(a, attempt, d) ==
    IF a.status = 0
    THEN (IF attempt < max_tries THEN Step(base_sleep(d) * attempt, "continue", "")
          ELSE Step(0, "return", "empty"))
    ELSE IF a.status = 429
         THEN (IF attempt < max_tries
               THEN Step(base_sleep(d) * (attempt * 4), "continue", "")
               ELSE Step(0, "return", "empty"))
    ELSE IF a.status >= 400 THEN Step(0, "return", "empty")
    ELSE Step(d, "return", "data")

\* DiscogsClient.get_price_suggestions, iteration attempt
get_price_suggestions(a, attempt, d) ==
    IF a.status = 0
    THEN (IF attempt < max_tries THEN Step(base_sleep(d) * attempt, "continue", "")
          ELSE Step(0, "return", "empty"))
    ELSE IF a.status = 404 THEN Step(0, "return", "empty")
    ELSE IF a.status = 429
         THEN (IF attempt < max_tries
               THEN Step(base_sleep(d) * (attempt * 4), "continue", "")
               ELSE Step(0, "return", "empty"))
    ELSE IF a.status >= 400 THEN Step(0, "return", "empty")
    ELSE Step(d \div 2, "return", "data")

iteration(c, a, attempt, d) ==
    CASE c = "get_release" -> get_release(a)
      [] c = "search_year_page" -> search_year_page(a, attempt, d)
      [] c = "get_price_suggestions" -> get_price_suggestions(a, attempt, d)

\* Retry-After: absent, seconds, or an HTTP date
s_http_date == <<"W","e","d",","," ","2","1"," ","O","c","t"," ","2","0","1","5">>
RetryAfters == {PyNone, PyStr(<<"2">>), PyStr(<<"6","0">>), PyStr(s_http_date)}

Answers ==
    {NetworkError} \cup {Answer(429, h) : h \in RetryAfters}
    \cup {Answer(200, PyNone), Answer(404, PyNone), Answer(500, PyNone)}

HttpIdle ==
    /\ client = "<none>"
    /\ delay = 1000
    /\ replies = <<>>
    /\ tries = 0
    /\ last = NoAnswer
    /\ slept = 0
    /\ result = "<not called>"
    /\ http_cache = "absent"

---------------------------------------------------------------------------
(* store/store.py: cached_http_get_json and get_median on one release.  A   *)
(* cache entry is [ts, json]: ts the time it was written (0: no entry), json *)
(* the network response it holds, named by the day it was fetched.  The two *)
(* entries live in the same dict, which is saved between the runs.          *)

NoEntry == [ts |-> 0, json |-> 0]

\* cached_http_get_json: [json, by_url] for a call at time now
cached_http_get_json(ent, now, ttl) ==
    IF ent # NoEntry /\ (now - ent.ts) <= ttl
    THEN [json |-> ent.json, by_url |-> ent]
    ELSE [json |-> now, by_url |-> [ts |-> now, json |-> now]]

\* get_median: [json, by_release, by_url] for a call at time now
get_median(rel, url, now, ttl) ==
    IF rel.ts # 0 /\ (now - rel.ts) < ttl
    THEN [json |-> rel.json, by_release |-> rel, by_url |-> url]
    ELSE LET got == cached_http_get_json(url, now, ttl)
         IN [json |-> got.json, by_release |-> [ts |-> now, json |-> got.json],
             by_url |-> got.by_url]

NotServed == [json |-> 0, at |-> 0]

CacheIdle ==
    /\ clock = 1
    /\ ttl_days = 1
    /\ by_release = NoEntry
    /\ by_url = NoEntry
    /\ served = NotServed

StoreIdle == PriceIdle /\ BuildIdle /\ FilesIdle /\ SheetIdle /\ ApplyIdle

\* no call of create_single_square_grid on its own; every cover file decodes
GridIdle ==
    /\ images = <<>>
    /\ tile = Tile
    /\ unreadable = {}

\* the inventory document is an object with the array under "records"
DocIdle == document = DocObject("records")

RunsIdle == runs = <<>>

AuxIdle == GridIdle /\ DocIdle /\ HttpIdle /\ CacheIdle /\ RunsIdle

---------------------------------------------------------------------------
(* Initial states *)

PipeIdle ==
    /\ records = <<>>
    /\ artist_major = <<>>
    /\ genre_map = <<>>
    /\ split = <<>>
    /\ todo = <<>>
    /\ misc = <<>>
    /\ big = <<>>
    /\ files = <<>>
    /\ seed = -1

InitPipe(inventories) ==
    /\ raw = StrRaw(<<>>)
    /\ chosen = NotCalled
    /\ inventory \in inventories
    /\ pc = "load"
    /\ PipeIdle
    /\ StoreIdle
    /\ AuxIdle

\* load_records on every shape of document
InitLoad ==
    /\ raw = StrRaw(<<>>)
    /\ chosen = NotCalled
    /\ inventory \in SmallInventories
    /\ pc = "load"
    /\ PipeIdle
    /\ StoreIdle
    /\ GridIdle
    /\ HttpIdle
    /\ CacheIdle
    /\ RunsIdle
    /\ document \in DocShapes

Init == InitPipe(SmallInventories)

InitBig == InitPipe(BigInventories)

InitGenre ==
    /\ raw \in GenreInputs
    /\ chosen = NotCalled
    /\ inventory = <<>>
    /\ pc = "idle"
    /\ PipeIdle
    /\ StoreIdle
    /\ AuxIdle

---------------------------------------------------------------------------
(* Actions *)

\* chosen = choose_broad_genre(raw)
CallChoose ==
    /\ pc = "idle"
    /\ chosen = NotCalled
    /\ chosen' = choose_broad_genre(raw)
    /\ UNCHANGED <<storeVars, auxVars>>
    /\ UNCHANGED <<raw, pipeVars>>

\* records = load_records(images_dir, inv); if not records: return
Load ==
    /\ pc = "load"
    /\ LET src == source_of(document, records_src)
       IN IF src.raised # ""
          THEN records' = records /\ pc' = "raised"
          ELSE /\ records' = load_records(src.list)
               /\ pc' = IF records' = <<>> THEN "done" ELSE "major"
    /\ UNCHANGED <<storeVars, auxVars>>
    /\ UNCHANGED <<raw, chosen, inventory, artist_major, genre_map, split, todo,
                   misc, big, files, seed>>

\* artist_counts and artist_major
Majority ==
    /\ pc = "major"
    /\ artist_major' = compute_artist_major(records)
    /\ pc' = "build"
    /\ UNCHANGED <<storeVars, auxVars>>
    /\ UNCHANGED <<raw, chosen, inventory, records, genre_map, split, todo,
                   misc, big, files, seed>>

\* genre_map
Build ==
    /\ pc = "build"
    /\ genre_map' = build_genre_map(records, artist_major)
    /\ pc' = "split"
    /\ todo' = DictKeys(genre_map')
    /\ UNCHANGED <<storeVars, auxVars>>
    /\ UNCHANGED <<raw, chosen, inventory, records, artist_major, split,
                   misc, big, files, seed>>

\* one iteration of the composite-split loop
SplitStep ==
    /\ pc = "split"
    /\ todo # <<>>
    /\ split' = split_bucket(split, Head(todo), DictGet(genre_map, Head(todo), <<>>))
    /\ IF Tail(todo) = <<>>
       THEN pc' = "merge" /\ todo' = <<>>
       ELSE pc' = "split" /\ todo' = Tail(todo)
    /\ UNCHANGED <<storeVars, auxVars>>
    /\ UNCHANGED <<raw, chosen, inventory, records, artist_major, genre_map,
                   misc, big, files, seed>>

\* the tiny-genre loop: for g, covers in split.items()
Merge ==
    /\ pc = "merge"
    /\ LET out == merge_tiny(split, <<>>, <<>>)
       IN misc' = out.misc /\ big' = out.big
    /\ pc' = "misc"
    /\ todo' = <<>>
    /\ UNCHANGED <<storeVars, auxVars>>
    /\ UNCHANGED <<raw, chosen, inventory, records, artist_major, genre_map,
                   split, files, seed>>

\* if misc: big["Misc"] = big.get("Misc", []) + misc; if not big: return
MiscFinish ==
    /\ pc = "misc"
    /\ big' = IF misc # <<>>
              THEN DictSet(big, s_Misc, DictGet(big, s_Misc, <<>>) \o misc)
              ELSE big
    /\ IF big' = <<>>
       THEN pc' = "done" /\ todo' = <<>> /\ seed' = seed
       ELSE pc' = "render" /\ todo' = sorted_keys(big') /\ seed' \in 0..MaxSeed
    /\ UNCHANGED <<storeVars, auxVars>>
    /\ UNCHANGED <<raw, chosen, inventory, records, artist_major, genre_map,
                   split, misc, files>>

\* for g, covers in sorted(big.items(), ...): create_single_square_grid(covers, out, tile, slug)
Render ==
    /\ pc = "render"
    /\ LET out == render_all(todo, big, files, seed, unreadable)
       IN files' = out.files /\ seed' = out.seed
    /\ pc' = "done"
    /\ todo' = <<>>
    /\ UNCHANGED <<storeVars, auxVars>>
    /\ UNCHANGED <<raw, chosen, inventory, records, artist_major, genre_map,
                   split, misc, big>>

Next == Load \/ Majority \/ Build \/ SplitStep \/ Merge \/ MiscFinish \/ Render

NextGenre == CallChoose

Spec == Init /\ [][Next]_vars

SpecBig == InitBig /\ [][Next]_vars

NextLoad == Load

SpecLoad == InitLoad /\ [][NextLoad]_vars

InitSlug == InitPipe(SlugInventories)

SpecSlug == InitSlug /\ [][Next]_vars

SpecGenre == InitGenre /\ [][NextGenre]_vars

---------------------------------------------------------------------------
(* choose_price on its own *)

InitPrice ==
    /\ raw = StrRaw(<<>>)
    /\ chosen = NotCalled
    /\ inventory = <<>>
    /\ pc = "price"
    /\ PipeIdle
    /\ row \in PriceRows
    /\ override_price \in Overrides
    /\ priced = NotPriced
    /\ BuildIdle
    /\ FilesIdle
    /\ SheetIdle
    /\ ApplyIdle
    /\ AuxIdle

\* priced = choose_price(row, override_price)
CallPrice ==
    /\ pc = "price"
    /\ priced = NotPriced
    /\ priced' = choose_price(row, override_price)
    /\ UNCHANGED <<raw, chosen, pipeVars, row, override_price, buildVars, fileVars,
                   sheetVars, applyVars, auxVars>>

NextPrice == CallPrice

SpecPrice == InitPrice /\ [][NextPrice]_vars

---------------------------------------------------------------------------
(* store.py / store_data.py: build_items_from_discogs, then main() writes   *)
(* store_inventory.json                                                      *)

InitBuild ==
    /\ raw = StrRaw(<<>>)
    /\ chosen = NotCalled
    /\ inventory = <<>>
    /\ pc = "build"
    /\ PipeIdle
    /\ PriceIdle
    /\ releases \in ReleaseLists(MaxRels)
    /\ floor \in Floors
    /\ rows = 0
    /\ groups = <<>>
    /\ by_key_rids = <<>>
    /\ idx = 1
    /\ items = <<>>
    /\ inv_json \in {NoFile, File(<<>>)}
    /\ backups = <<>>
    /\ SheetIdle
    /\ ApplyIdle
    /\ AuxIdle

\* one iteration of `for r in releases`
GroupStep ==
    /\ pc = "build"
    /\ rows < Len(releases)
    /\ LET out == group_one(groups, by_key_rids, releases[rows + 1])
       IN groups' = out.groups /\ by_key_rids' = out.by_key_rids
    /\ rows' = rows + 1
    /\ UNCHANGED <<raw, chosen, pipeVars, priceVars, fileVars, sheetVars, applyVars, auxVars,
                   releases, floor, idx, items>>

\* one iteration of `for idx, (key, g) in enumerate(groups.items(), start=1)`:
\* the two lookups answer q, g["price"] is set
PriceStep ==
    /\ pc = "build"
    /\ rows = Len(releases)
    /\ idx <= Len(groups)
    /\ \E q \in Quotes :
          groups' = [groups EXCEPT ![idx].v.price =
                        price_str(group_price(q.suggested, q.median, floor))]
    /\ idx' = idx + 1
    /\ UNCHANGED <<raw, chosen, pipeVars, priceVars, fileVars, sheetVars, applyVars, auxVars,
                   releases, floor, rows, by_key_rids, items>>

\* items = list(groups.values()); items.sort(...); return items, stats
ReturnItems ==
    /\ pc = "build"
    /\ rows = Len(releases)
    /\ idx > Len(groups)
    /\ items' = sorted_items(groups)
    /\ pc' = "write"
    /\ UNCHANGED <<raw, chosen, pipeData, priceVars, fileVars, sheetVars, applyVars, auxVars,
                   releases, floor, rows, groups, by_key_rids, idx>>

\* main(): inv_path.write_text(json.dumps({"items": items}, ...))
WriteInventory ==
    /\ pc = "write"
    /\ inv_json' = File(items)
    /\ pc' = "built"
    /\ UNCHANGED <<raw, chosen, pipeData, priceVars, buildVars, sheetVars, applyVars, auxVars,
                   backups>>

\* now_ts(): the clock, read to the second; t counts the seconds
now_ts(t) == NatStr(t)

\* inv_json.with_name(stem + "_backup_" + ts + suffix), without stem and suffix
backup_name(ts) == <<"_","b","a","c","k","u","p","_">> \o ts

\* apply_store_prices main(), up to the backup: it finds the pricing CSV the
\* owner left, reads it and the inventory, and writes the backup file; it
\* returns 2 before any of this when one of the two files is missing
ApplyBackup ==
    /\ pc = "built"
    /\ \E csv \in PricingCsvs, t \in 1..MaxStamp :
          /\ pricing_csv' = csv
          /\ IF ~csv.exists \/ ~inv_json.exists
             THEN /\ pc' = "apply_failed"
                  /\ UNCHANGED <<price_map, inv_raw, backups>>
             ELSE /\ price_map' = load_pricing_overrides(csv.content, <<>>)
                  /\ inv_raw' = inv_json.content
                  /\ backups' = DictSet(backups, backup_name(now_ts(t)), inv_json.content)
                  /\ pc' = "apply"
    /\ UNCHANGED <<raw, chosen, pipeData, priceVars, buildVars, sheetVars, auxVars,
                   inv_json>>

\* apply_store_prices main(), from the loop over the items to the end: the
\* inventory is written back
ApplyWrite ==
    /\ pc = "apply"
    /\ inv_json' = File(apply_items(inv_raw, price_map))
    /\ pc' = "applied"
    /\ UNCHANGED <<raw, chosen, pipeData, priceVars, buildVars, sheetVars, applyVars, auxVars,
                   backups>>

NextBuild ==
    GroupStep \/ PriceStep \/ ReturnItems \/ WriteInventory \/ ApplyBackup \/ ApplyWrite

SpecBuild == InitBuild /\ [][NextBuild]_vars

---------------------------------------------------------------------------
(* export_price_sheet.py: main() *)

InitSheet ==
    /\ raw = StrRaw(<<>>)
    /\ chosen = NotCalled
    /\ inventory = <<>>
    /\ pc = "sheet"
    /\ PipeIdle
    /\ PriceIdle
    /\ BuildIdle
    /\ FilesIdle
    /\ ApplyIdle
    /\ AuxIdle
    /\ source_rows \in SheetLists
    /\ line = 0
    /\ years_by_key = <<>>
    /\ price_file \in PriceFiles

\* one iteration of `for row in reader`
SheetRow ==
    /\ pc = "sheet"
    /\ line < Len(source_rows)
    /\ LET out == sheet_one(groups, years_by_key, source_rows[line + 1])
       IN groups' = out.groups /\ years_by_key' = out.years_by_key
    /\ line' = line + 1
    /\ UNCHANGED <<raw, chosen, pipeVars, priceVars, fileVars, applyVars, auxVars, source_rows,
                   price_file, releases, floor, rows, by_key_rids, idx, items>>

\* rows = [...]; rows.sort(...); the csv writer writes PRICE_FILE
SheetWrite ==
    /\ pc = "sheet"
    /\ line = Len(source_rows)
    /\ price_file' = File(sheet_rows(groups, years_by_key, load_existing(price_file)))
    /\ pc' = "sheet_done"
    /\ UNCHANGED <<raw, chosen, pipeData, priceVars, buildVars, fileVars, applyVars, auxVars,
                   source_rows, line, years_by_key>>

NextSheet == SheetRow \/ SheetWrite

SpecSheet == InitSheet /\ [][NextSheet]_vars

---------------------------------------------------------------------------
(* create_single_square_grid on its own *)

\* image lists: two cover files, each may occur more than once
GridImages == SeqsUpTo({1, 2}, MaxImgs)

InitGrid ==
    /\ raw = StrRaw(<<>>)
    /\ chosen = NotCalled
    /\ inventory = <<>>
    /\ pc = "grid"
    /\ PipeIdle
    /\ StoreIdle
    /\ images \in GridImages
    /\ tile \in {100, Tile}
    /\ unreadable \in SUBSET {1, 2}
    /\ DocIdle
    /\ HttpIdle
    /\ CacheIdle
    /\ RunsIdle

\* create_single_square_grid(images, outdir, tile, "Jazz")
CallGrid ==
    /\ pc = "grid"
    /\ IF images = <<>>
       THEN files' = files /\ seed' = seed
       ELSE \E s0 \in 0..MaxSeed :
               LET f == grid_file(images, tile, s_Jazz, s0, unreadable)
               IN /\ files' = DictSet(files, f.name, f.canvas)
                  /\ seed' = RandAfter(Len(f.canvas.batch) - Len(images), s0)
    /\ pc' = "grid_done"
    /\ UNCHANGED <<raw, chosen, inventory, records, artist_major, genre_map, split, todo,
                   misc, big, storeVars, auxVars>>

NextGrid == CallGrid

SpecGrid == InitGrid /\ [][NextGrid]_vars

---------------------------------------------------------------------------
(* one call of a client operation *)

InitHttp ==
    /\ raw = StrRaw(<<>>)
    /\ chosen = NotCalled
    /\ inventory = <<>>
    /\ pc = "http"
    /\ PipeIdle
    /\ StoreIdle
    /\ GridIdle
    /\ DocIdle
    /\ client \in {"get_release", "search_year_page", "get_price_suggestions"}
    /\ delay \in IF client = "get_release" THEN {1000} ELSE {0, 1000}
    /\ replies \in [1..MaxReplies -> Answers]
    /\ tries = 0
    /\ last = NoAnswer
    /\ slept = 0
    /\ result = "<not called>"
    /\ http_cache \in IF client = "get_release" THEN {"absent"} ELSE {"absent", "data"}
    /\ CacheIdle
    /\ RunsIdle

\* the call, up to the loop: DiscogsClient returns what its cache holds
CallClient ==
    /\ pc = "http"
    /\ IF http_cache # "absent"
       THEN result' = http_cache /\ pc' = "http_done"
       ELSE result' = result /\ pc' = "http_loop"
    /\ UNCHANGED <<raw, chosen, pipeData, storeVars, gridVars, document, cacheVars, runs,
                   client, delay, replies, tries, last, slept, http_cache>>

\* one iteration of the retry loop: the request, the answer, the sleep; after
\* the last iteration the code behind the loop
Attempt ==
    /\ pc = "http_loop"
    /\ tries < max_tries
    /\ tries < Len(replies)
    /\ LET a == replies[tries + 1]
           st == iteration(client, a, tries + 1, delay)
       IN /\ tries' = tries + 1
          /\ last' = a
          /\ slept' = st.sleep
          /\ CASE st.next = "raise" ->
                    /\ result' = st.out
                    /\ pc' = "http_raised"
                    /\ http_cache' = http_cache
               [] st.next = "return" ->
                    /\ result' = st.out
                    /\ pc' = "http_done"
                    /\ http_cache' = IF client = "get_release" THEN http_cache ELSE st.out
               [] st.next = "continue" /\ tries + 1 < max_tries ->
                    /\ result' = result
                    /\ pc' = "http_loop"
                    /\ http_cache' = http_cache
               [] st.next = "continue" /\ tries + 1 >= max_tries ->
                    /\ result' = "empty"
                    /\ pc' = "http_done"
                    /\ http_cache' = IF client = "get_release" THEN http_cache ELSE "empty"
    /\ UNCHANGED <<raw, chosen, pipeData, storeVars, gridVars, document, cacheVars, runs,
                   client, delay, replies>>

NextHttp == CallClient \/ Attempt

SpecHttp == InitHttp /\ [][NextHttp]_vars

---------------------------------------------------------------------------
(* calls of get_median for one release, over the days *)

InitCache ==
    /\ raw = StrRaw(<<>>)
    /\ chosen = NotCalled
    /\ inventory = <<>>
    /\ pc = "cache"
    /\ PipeIdle
    /\ StoreIdle
    /\ GridIdle
    /\ DocIdle
    /\ HttpIdle
    /\ clock = 1
    /\ ttl_days \in {1, 2, 3}
    /\ by_release = NoEntry
    /\ by_url = NoEntry
    /\ served = NotServed
    /\ RunsIdle

\* a day passes
Tick ==
    /\ pc = "cache"
    /\ clock < MaxClock
    /\ clock' = clock + 1
    /\ UNCHANGED <<raw, chosen, pipeVars, storeVars, gridVars, document, httpVars, runs,
                   ttl_days, by_release, by_url, served>>

\* med, status, err = get_median(rid, token, user_agent, cache, ttl_days)
GetMedian ==
    /\ pc = "cache"
    /\ LET out == get_median(by_release, by_url, clock, ttl_days)
       IN /\ by_release' = out.by_release
          /\ by_url' = out.by_url
          /\ served' = [json |-> out.json, at |-> clock]
    /\ UNCHANGED <<raw, chosen, pipeVars, storeVars, gridVars, document, httpVars, runs,
                   clock, ttl_days>>

NextCache == Tick \/ GetMedian

SpecCache == InitCache /\ [][NextCache]_vars

---------------------------------------------------------------------------
(* backup/store/apply_store_prices.py main(), run again and again on the    *)
(* inventory it finds.  Between two runs the owner may edit the pricing CSV *)
(* and the clock may pass to the next second.                               *)

\* an inventory document whose "items" is an object, not a list
NotAList == <<[not_a_list |-> <<"{","}">>]>>

\* isinstance(items, list)
IsItemsList(content) == ~(Len(content) = 1 /\ "not_a_list" \in DOMAIN content[1])

s_n_note == <<"n">>
s_bar_n == <<"|","n">>
s_n_marked == <<"n"," ","|"," ">> \o s_marker

\* items of the inventory: matched by variant_release_ids, by release_id, or
\* by no row at all; the notes are empty, plain, start with a bar, or carry
\* the marker of an earlier run
ShelfItems ==
    { [release_id |-> rid, variant_release_ids |-> <<"1">>, price |-> p, notes |-> n] :
         rid \in {<<"9">>}, p \in {<<"5">>, <<"7">>},
         n \in {<<>>, s_n_note, s_bar_n, s_n_marked} }
    \cup
    { [release_id |-> rid, price |-> p, notes |-> n] :
         rid \in {<<"1">>, <<"3">>}, p \in {<<"5">>, <<"7">>},
         n \in {<<>>, s_n_note, s_bar_n, s_n_marked} }

Shelves(n) == {NoFile, File(NotAList)} \cup {File(its) : its \in SeqsUpTo(ShelfItems, n)}

\* pricing_overrides.csv as the owner left it for a run
OverrideFiles ==
    { NoFile,
      File(<<>>),
      File(<< OverrideRow(s_Ab, s_X, <<"1">>, <<"7">>, <<>>, <<>>) >>),
      File(<< OverrideRow(s_Ab, s_X, <<"1">>, <<" ","5">>, <<>>, <<"n">>) >>),
      File(<< OverrideRow(s_Ab, s_X, <<"1">>, <<"5">>, <<>>, <<>>),
              OverrideRow(s_C, s_X, <<"2">>, <<"7">>, <<>>, <<>>) >>) }

\* the second of the latest run
stamp == IF runs = <<>> THEN 1 ELSE runs[Len(runs)].ts

InitApply ==
    /\ raw = StrRaw(<<>>)
    /\ chosen = NotCalled
    /\ inventory = <<>>
    /\ pc = "shop"
    /\ PipeIdle
    /\ PriceIdle
    /\ BuildIdle
    /\ SheetIdle
    /\ ApplyIdle
    /\ AuxIdle
    /\ inv_json \in Shelves(MaxShelf)
    /\ backups = <<>>

\* main(): return 2 when a file is missing or "items" is no list; otherwise
\* write the backup, update the items and write the inventory
ApplyMain ==
    /\ pc \in {"shop", "applied", "apply_failed"}
    /\ Len(runs) < MaxRuns
    /\ \E csv \in OverrideFiles, t \in stamp..MaxStamp :
          /\ pricing_csv' = csv
          /\ IF ~csv.exists \/ ~inv_json.exists \/ ~IsItemsList(inv_json.content)
             THEN /\ pc' = "apply_failed"
                  /\ runs' = Append(runs, [code |-> 2, ts |-> t, before |-> inv_json])
                  /\ UNCHANGED <<price_map, inv_raw, backups, inv_json>>
             ELSE /\ price_map' = load_pricing_overrides(csv.content, <<>>)
                  /\ inv_raw' = inv_json.content
                  /\ backups' = DictSet(backups, backup_name(now_ts(t)), inv_json.content)
                  /\ inv_json' = File(apply_items(inv_raw', price_map'))
                  /\ runs' = Append(runs, [code |-> 0, ts |-> t, before |-> inv_json])
                  /\ pc' = "applied"
    /\ UNCHANGED <<raw, chosen, pipeData, priceVars, buildVars, sheetVars, gridVars,
                   document, httpVars, cacheVars>>

NextApply == ApplyMain

SpecApply == InitApply /\ [][NextApply]_vars

---------------------------------------------------------------------------
(* Claims about choose_broad_genre, checked under SpecGenre *)

Called == chosen # NotCalled

\* some entry of the raw tag (the string itself, or an entry of the list)
\* contains sub, letter case ignored
TagHas(sub) == \E i \in 1..Len(raw.items) : Contains(sub, Lower(raw.items[i]))

\* entries of the raw tag that are not blank
NonBlank == {i \in 1..Len(raw.items) : Strip(raw.items[i]) # <<>>}

HasSeparator(s) == \E i \in 1..Len(s) : s[i] \in Separators

\* C8, as claimed: for every genre list with at least 2 entries, one of which
\* contains "pop" in any letter case, choose_broad_genre returns exactly "Pop".
C8_AsClaimed ==
    (Called /\ raw.isList /\ Len(raw.items) >= 2 /\ TagHas(s_pop)) => chosen = s_Pop

\* C8, amended: for every genre list with at least 2 entries that are not blank
\* (empty or whitespace-only entries are dropped before counting), one of which
\* contains "pop" in any letter case, choose_broad_genre returns exactly "Pop".
C8_PopWins ==
    (Called /\ raw.isList /\ Cardinality(NonBlank) >= 2 /\ TagHas(s_pop)) => chosen = s_Pop

\* a list whose first entry has no "pop" and whose later entry has it in upper case
C8_Witness ==
    /\ Called /\ raw.isList /\ Cardinality(NonBlank) >= 2
    /\ ~Contains(s_pop, Lower(raw.items[1]))
    /\ \E i \in 2..Len(raw.items) : raw.items[i] = <<"P","O","P">>
    /\ chosen = s_Pop

\* C9, as claimed: for every genre tag (string or list) that contains "folk" and
\* "country" and no "pop", letter case ignored, the result is exactly "Country".
C9_AsClaimed ==
    (Called /\ TagHas(s_folk) /\ TagHas(s_country) /\ ~TagHas(s_pop)) => chosen = s_Country

\* C9, amended: for every genre tag that is a string containing one of the
\* separators , / & ; | or a list with at least 2 non-blank entries, and that
\* contains "folk" and "country" and no "pop", the result is exactly "Country".
C9_CountryWins ==
    (/\ Called
     /\ IF raw.isList THEN Cardinality(NonBlank) >= 2 ELSE HasSeparator(raw.items[1])
     /\ TagHas(s_folk) /\ TagHas(s_country) /\ ~TagHas(s_pop))
    => chosen = s_Country

\* a string "folk<separator>Country" resolved to "Country"
C9_Witness ==
    /\ Called /\ ~raw.isList /\ HasSeparator(raw.items[1])
    /\ TagHas(s_folk) /\ TagHas(s_country) /\ ~TagHas(s_pop)
    /\ raw.items[1] # s_Country
    /\ chosen = s_Country

\* C10: on a single string the result is None if the string is empty after
\* trimming; "Pop" if it has a separator and contains "pop"; "Country" if it has a
\* separator, no "pop", and both "folk" and "country"; in every other case the
\* trimmed string itself (a tag without separator is never rewritten).
C10_StringCases ==
    (Called /\ ~raw.isList) =>
        LET t == Strip(raw.items[1])
            sep == HasSeparator(raw.items[1])
        IN /\ t = <<>> => chosen = None
           /\ (t # <<>> /\ sep /\ TagHas(s_pop)) => chosen = s_Pop
           /\ (t # <<>> /\ sep /\ ~TagHas(s_pop) /\ TagHas(s_folk) /\ TagHas(s_country))
                 => chosen = s_Country
           /\ (t # <<>> /\ ~(sep /\ TagHas(s_pop))
                        /\ ~(sep /\ TagHas(s_folk) /\ TagHas(s_country)))
                 => chosen = t
           /\ (t # <<>> /\ ~sep) => chosen = t

\* a string with "pop" in it, padded with blanks and without separator, comes back trimmed
C10_Witness ==
    /\ Called /\ ~raw.isList
    /\ ~HasSeparator(raw.items[1]) /\ TagHas(s_pop)
    /\ Strip(raw.items[1]) # raw.items[1]
    /\ chosen = Strip(raw.items[1])
    /\ chosen # s_Pop

---------------------------------------------------------------------------
(* Claims about main() *)

AfterBuild == pc \in {"split", "merge", "misc", "render", "done"} /\ records # <<>>
AfterSplit == pc \in {"merge", "misc", "render", "done"} /\ records # <<>>
AfterMerge == pc \in {"render", "done"} /\ records # <<>>
Finished == pc = "done" /\ records # <<>>

Covers(d, k) == DictGet(d, k, <<>>)

Composite(k) == normalize_genre_key(k) = s_folk_world_country

\* floor(2n/3)
FloorTwoThirds(n) == CHOOSE k \in 0..n : 3 * k <= 2 * n /\ 2 * n < 3 * (k + 1)

\* xs occurs in ys as a run of consecutive elements
IsRunOf(xs, ys) ==
    \E i \in 0..(Len(ys) - Len(xs)) : SubSeq(ys, i + 1, i + Len(xs)) = xs

(* C3 *)

Idx == 1..Len(records)

CountOf(a, g) == Cardinality({j \in Idx : records[j].artist = a /\ records[j].broad = g})

FirstOf(a, g) ==
    CHOOSE j \in Idx : /\ records[j].artist = a /\ records[j].broad = g
                       /\ \A m \in 1..(j - 1) : ~(records[m].artist = a /\ records[m].broad = g)

GenresOf(a) == {records[j].broad : j \in {m \in Idx : records[m].artist = a}}

\* the genre of highest count among the artist's records, the earliest-met on a tie
MajorityOf(a) ==
    CHOOSE g \in GenresOf(a) :
        \A h \in GenresOf(a) :
            \/ CountOf(a, h) < CountOf(a, g)
            \/ CountOf(a, h) = CountOf(a, g) /\ FirstOf(a, g) <= FirstOf(a, h)

\* C3: every record with a known artist is put in the bucket of the genre of
\* highest count among all of that artist's records, a tie going to the genre met
\* first for that artist in source order; a record without artist is put in the
\* bucket of its own broad genre.
C3_Majority ==
    AfterBuild =>
        \A i \in Idx : \A e \in Range(genre_map) :
            (records[i].img \in Range(e.v))
            <=> (e.k = IF records[i].artist = None THEN records[i].broad
                       ELSE MajorityOf(records[i].artist))

\* an artist with one Jazz then one Country record: the tie goes to Jazz (met
\* first, alphabetically last); an artist-less Country record stays in Country
C3_Witness ==
    /\ AfterBuild
    /\ Len(records) = 3
    /\ records[1].artist # None /\ records[2].artist = records[1].artist
    /\ records[3].artist = None
    /\ records[1].broad = s_Jazz /\ records[2].broad = s_Country
    /\ genre_map = << [k |-> s_Jazz, v |-> <<1, 2>>], [k |-> s_Country, v |-> <<3>>] >>

(* C4 *)

KnownArtists == {records[i].artist : i \in Idx} \ {None}

CoversOfArtist(a) == {records[i].img : i \in {j \in Idx : records[j].artist = a}}

\* the buckets of d that hold a cover of artist a
BucketsOf(d, a) ==
    {i \in 1..Len(d) : Range(d[i].v) \cap CoversOfArtist(a) # {}}

SameArtist(i, j) == records[i].artist # None /\ records[i].artist = records[j].artist

\* all covers of each known artist lie in exactly one bucket of d
Cohesive(d) == \A a \in KnownArtists : Cardinality(BucketsOf(d, a)) = 1

\* the same, but for the artists whose majority genre is the composite
CohesiveButComposite(d) ==
    \A a \in KnownArtists : ~Composite(MajorityOf(a)) => Cardinality(BucketsOf(d, a)) = 1

\* C4, as claimed: at every stage from the majority aggregation to the final
\* buckets (genre_map once built, split once the split loop is over, big once
\* Misc is in it), all covers of one known artist lie in one single bucket.
C4_AsClaimed ==
    /\ (pc = "split" /\ records # <<>>) => Cohesive(genre_map)
    /\ (pc = "merge" /\ records # <<>>) => Cohesive(split)
    /\ AfterMerge => Cohesive(big)

\* C4, amended: right after the majority aggregation all covers of one known
\* artist lie in one single bucket; after the composite split and in the final
\* buckets this holds for every known artist whose majority genre does not
\* normalize to folk_world_country (the composite bucket is cut by position).
C4_Cohesion ==
    /\ (pc = "split" /\ records # <<>>) => Cohesive(genre_map)
    /\ (pc = "merge" /\ records # <<>>) => CohesiveButComposite(split)
    /\ AfterMerge => CohesiveButComposite(big)

\* an artist with records of two genres, all in one final bucket of its own
\* label, next to another final bucket
C4_Witness ==
    /\ Finished
    /\ Len(big) >= 2
    /\ \E i, j \in Idx :
          /\ SameArtist(i, j) /\ records[i].broad # records[j].broad
          /\ \E e \in Range(big) :
                e.k # s_Misc /\ {records[i].img, records[j].img} \subseteq Range(e.v)

(* C5 *)

\* C5, as claimed: when every record of the inventory carries the composite
\* string "Folk, World, & Country", the composite split puts the first
\* max(1, floor(2n/3)) covers into Folk_World and the rest into Country.
C5_AsClaimed ==
    (/\ pc \in {"merge", "misc", "render", "done"}
     /\ inventory # <<>>
     /\ \A i \in 1..Len(inventory) : inventory[i].genre = StrRaw(s_FWC))
    => LET n == Len(records_src)
           cut == Max(1, FloorTwoThirds(n))
       IN /\ Covers(split, s_Folk_World) = [i \in 1..cut |-> records_src[i].img]
          /\ Covers(split, s_Country) = [i \in 1..(n - cut) |-> records_src[cut + i].img]

(* C6 *)

\* C6: the split of a bucket of n >= 1 covers whose normalized key is
\* folk_world_country adds its first max(1, floor(2n/3)) covers, in order, to
\* Folk_World and its remaining covers to Country; the two shares add up to n.
C6_SplitSizes ==
    [][(pc = "split" /\ todo # <<>> /\ Composite(Head(todo))) =>
          LET covers == Covers(genre_map, Head(todo))
              n == Len(covers)
              fw == IF FloorTwoThirds(n) >= 1 THEN FloorTwoThirds(n) ELSE 1
          IN /\ n >= 1
             /\ Covers(split', s_Folk_World)
                   = Covers(split, s_Folk_World) \o SubSeq(covers, 1, fw)
             /\ Covers(split', s_Country)
                   = Covers(split, s_Country) \o SubSeq(covers, fw + 1, n)
             /\ (Len(Covers(split', s_Folk_World)) - Len(Covers(split, s_Folk_World)))
                + (Len(Covers(split', s_Country)) - Len(Covers(split, s_Country))) = n
      ]_vars

\* a composite bucket of one cover (all of it goes to Folk_World) has been split
C6_Witness ==
    /\ AfterSplit
    /\ \E e \in Range(genre_map) : Composite(e.k) /\ Len(e.v) = 1
    /\ Len(Covers(split, s_Folk_World)) = 1
    /\ DictHas(split, s_Country)

(* C7 *)

\* the split loop has just ended: split is final, nothing later assigns to it
SplitDone == pc = "merge" /\ records # <<>>

\* C7, as claimed: every bucket whose normalized key is not folk_world_country
\* passes through the split with the same label and the same covers in the same
\* order, a bucket labelled Country or Folk_World included.
C7_AsClaimed ==
    SplitDone =>
        \A e \in Range(genre_map) :
            ~Composite(e.k) => DictHas(split, e.k) /\ Covers(split, e.k) = e.v

\* C7, amended: every bucket whose normalized key is not folk_world_country and
\* whose label is neither Country nor Folk_World passes through the split with
\* the same label and the same covers in the same order; so does a bucket
\* labelled Country or Folk_World when no composite bucket is present; when one
\* is, that bucket keeps its label and its covers, in order and together, and
\* also receives the composite bucket's share.
C7_Frame ==
    SplitDone =>
        \A e \in Range(genre_map) :
            ~Composite(e.k) =>
                /\ DictHas(split, e.k)
                /\ IF e.k \in {s_Country, s_Folk_World}
                      /\ \E c \in Range(genre_map) : Composite(c.k)
                   THEN IsRunOf(e.v, Covers(split, e.k))
                   ELSE Covers(split, e.k) = e.v

\* a Jazz bucket and a Country bucket have passed the split next to a composite one
C7_Witness ==
    /\ SplitDone
    /\ \E c \in Range(genre_map) : Composite(c.k)
    /\ DictHas(genre_map, s_Jazz) /\ DictHas(genre_map, s_Country)
    /\ Covers(split, s_Jazz) = Covers(genre_map, s_Jazz)
    /\ Covers(split, s_Country) = Covers(genre_map, s_Country)

(* C2 *)

Rendered(label) == \E i \in 1..Len(files) : files[i].k.prefix = safe_slug(label)

\* C2: a bucket of the split other than Misc is rendered under its own label,
\* with its own covers, if and only if it holds 36 or more covers; the covers of
\* every bucket of fewer than 36 are all in Misc; Misc is rendered whenever it
\* is not empty, also with fewer than 36 covers.
C2_TinyMerge ==
    /\ AfterMerge =>
          /\ \A e \in Range(split) :
                /\ e.k # s_Misc => (DictHas(big, e.k) <=> Len(e.v) >= 36)
                /\ (e.k # s_Misc /\ Len(e.v) >= 36) => Covers(big, e.k) = e.v
                /\ Len(e.v) < 36 => Range(e.v) \subseteq Range(Covers(big, s_Misc))
          /\ \A b \in Range(big) : b.k # s_Misc => DictHas(split, b.k)
          /\ DictHas(big, s_Misc) <=> Covers(big, s_Misc) # <<>>
    /\ Finished =>
          /\ \A e \in Range(split) :
                e.k # s_Misc => (Rendered(e.k) <=> Len(e.v) >= 36)
          /\ Rendered(s_Misc) <=> Covers(big, s_Misc) # <<>>

\* a bucket of exactly 36 rendered under its own label, one of exactly 35 merged
\* into a Misc of fewer than 36 covers that is rendered
C2_Witness ==
    /\ Finished
    /\ \E e \in Range(split) : Len(e.v) = 36 /\ Rendered(e.k) /\ e.k # s_Misc
    /\ \E e \in Range(split) : Len(e.v) = 35 /\ ~Rendered(e.k)
    /\ Len(Covers(big, s_Misc)) = 35
    /\ Rendered(s_Misc)

(* C1 *)

ImgsOf(g) ==
    {records_src[i].img : i \in {j \in 1..Len(records_src) : records_src[j].genre = StrRaw(g)}}

\* 40 Jazz, 30 Pop and 5 Blues records, no artist shared between genres
ExampleInventory ==
    /\ Len(records_src) = 75
    /\ Cardinality(ImgsOf(s_Jazz)) = 40
    /\ Cardinality(ImgsOf(s_Pop)) = 30
    /\ Cardinality(ImgsOf(s_Blues)) = 5
    /\ \A i, j \in 1..Len(inventory) :
          (inventory[i].artist # None /\ inventory[i].artist = inventory[j].artist)
          => inventory[i].genre = inventory[j].genre

\* a written grid of side x side cells for bucket label: its first cells are the
\* bucket's covers, the other cells repeat covers of the bucket
Grid(label, side, real, padded) ==
    \E i \in 1..Len(files) :
        /\ files[i].k = [prefix |-> safe_slug(label), cols |-> side, rows |-> side]
        /\ files[i].v.width = side * 192 /\ files[i].v.height = side * 192
        /\ Len(files[i].v.cells) = side * side
        /\ Len(Covers(big, label)) = real
        /\ SubSeq(files[i].v.cells, 1, real) = Covers(big, label)
        /\ side * side - real = padded
        /\ \A c \in (real + 1)..(side * side) :
              files[i].v.cells[c] \in Range(Covers(big, label))

\* C1, as claimed: the example inventory renders a Jazz grid of 7x7 (40 covers,
\* 9 padded), a Pop grid of 6x6 (30 covers, 6 padded), and Misc holds exactly
\* the 5 Blues covers.
C1_AsClaimed ==
    (pc = "done" /\ ExampleInventory) =>
        /\ Grid(s_Jazz, 7, 40, 9)
        /\ Grid(s_Pop, 6, 30, 6)
        /\ Range(Covers(big, s_Misc)) = ImgsOf(s_Blues)
        /\ Len(Covers(big, s_Misc)) = 5

\* C1, amended: the example inventory renders a Jazz grid of 7x7 (40 covers, 9
\* padded) and no Pop grid: the 30 Pop covers are fewer than 36 and are merged,
\* with the 5 Blues covers, into Misc, which holds exactly these 35 covers and
\* is rendered as a 6x6 grid (35 covers, 1 padded).
C1_Example ==
    (pc = "done" /\ ExampleInventory) =>
        /\ Grid(s_Jazz, 7, 40, 9)
        /\ ~Rendered(s_Pop) /\ ~Rendered(s_Blues)
        /\ Range(Covers(big, s_Misc)) = ImgsOf(s_Pop) \cup ImgsOf(s_Blues)
        /\ Grid(s_Misc, 6, 35, 1)
        /\ Len(files) = 2

\* the example inventory has been run to the end
C1_Witness == pc = "done" /\ ExampleInventory /\ Len(files) = 2

(* C11 *)

\* the aggregation has just ended: genre_map is its output
BuildDone == pc = "split" /\ todo = DictKeys(genre_map) /\ records # <<>>

\* the genre the aggregation assigned to record i: the label of its bucket
AssignedGenre(i) ==
    (CHOOSE e \in Range(genre_map) : records[i].img \in Range(e.v)).k

\* the aggregation's output as a record list: the assigned genre is the new broad genre
Reassigned == [i \in Idx |-> [records[i] EXCEPT !.broad = AssignedGenre(i)]]

\* C11: running the artist majority aggregation a second time on its own output
\* (each record's assigned majority genre taken as its new broad genre) changes
\* no record's genre, and so rebuilds the same buckets.
C11_Idempotent ==
    BuildDone =>
        LET major2 == compute_artist_major(Reassigned)
        IN /\ \A i \in Idx : final_genre(major2, Reassigned[i]) = AssignedGenre(i)
           /\ build_genre_map(Reassigned, major2) = genre_map

\* the first run changed a record's genre (two artists, each outvoted on a
\* record), so the second run works on genres the first run assigned
C11_Witness ==
    /\ BuildDone
    /\ \E i \in Idx : AssignedGenre(i) # records[i].broad
    /\ Cardinality(KnownArtists) = 2
    /\ Len(genre_map) >= 2

---------------------------------------------------------------------------
(* Claims about choose_price, checked under SpecPrice *)

Priced == priced # NotPriced

\* the value is a str or a number that safe_float turns into a number > 0
ParsesPositive(v) == IsPositive(safe_float(v))

OverrideGiven == override_price # PyNone /\ override_price # PyStr(<<>>)

\* C12, as claimed: the first satisfied step wins: a present, non-empty override
\* is returned verbatim with tag override; otherwise a median parsing to a number
\* > 0 is returned rounded with tag median; otherwise a high_sold parsing to a
\* number > 0 is returned rounded with tag high_sold; otherwise the default price
\* with tag default; an absent or empty override never yields tag override.
C12_AsClaimed ==
    Priced =>
        /\ priced =
              IF OverrideGiven
              THEN [price |-> override_price, tag |-> "override"]
              ELSE IF ParsesPositive(median_arg(row))
              THEN [price |-> py_round(safe_float(median_arg(row))), tag |-> "median"]
              ELSE IF ParsesPositive(high_arg(row))
              THEN [price |-> py_round(safe_float(high_arg(row))), tag |-> "high_sold"]
              ELSE [price |-> PyInt(DEFAULT_PRICE), tag |-> "default"]
        /\ ~OverrideGiven => priced.tag # "override"

\* C13, as claimed: with no override, whatever median and high_sold are, the
\* returned price is a strictly positive number.
C13_AsClaimed ==
    (Priced /\ override_price = PyNone) =>
        /\ priced.price.t = "int"
        /\ priced.price.n > 0

---------------------------------------------------------------------------
(* Claims about build_items_from_discogs and the inventory file, checked    *)
(* under SpecBuild                                                           *)

Returned == pc \in {"write", "built"}

\* lowercased, trimmed, whitespace runs collapsed
Normal(x) == re_sub_ws(Lower(Strip(x)), FALSE)

\* the price of an emitted item, in hundredths
PriceOf(it) == DigitsVal(it.price) * 100

\* C14, as claimed: whatever the floor (it may be non-integer) and whatever the
\* two lookups give, the price emitted for every item is never below the floor.
C14_AsClaimed ==
    Returned => \A i \in 1..Len(items) : PriceOf(items[i]) >= floor

(* C16 *)

\* the releases the grouping loop does not skip
ValidRels == {i \in 1..Len(releases) : releases[i].id # PyNone /\ py_int(releases[i].id).t = "int"}

RelKey(i) ==
    Normal(norm(releases[i].artist)) \o <<"|">> \o Normal(norm(releases[i].title))

GroupedUnder(key) == {i \in ValidRels : RelKey(i) = key}

\* the ids of the releases of S, in source order
RelIds(S) ==
    [ n \in 1..Cardinality(S) |->
        IntStr(py_int(releases[CHOOSE i \in S :
                                 Cardinality({j \in S : j < i}) = n - 1].id).n) ]

\* some field of the item holds v (every field of an item is a str; a list of
\* ids is looked for in the form variant_release_ids has, joined by blanks)
ItemCarries(it, v) == \E f \in DOMAIN it : it[f] = v

\* C16, as claimed: the end state is one item per normalized (artist, title) key,
\* and each emitted item carries the list of all release ids grouped under its
\* key and a quantity equal to the number of grouped releases.
C16_AsClaimed ==
    Returned =>
        /\ \A i \in ValidRels :
              Cardinality({o \in 1..Len(items) : items[o].key = RelKey(i)}) = 1
        /\ \A o \in 1..Len(items) :
              /\ GroupedUnder(items[o].key) # {}
              /\ ItemCarries(items[o], Join(<<" ">>, RelIds(GroupedUnder(items[o].key))))
              /\ Cardinality(GroupedUnder(items[o].key)) > 1 =>
                    ItemCarries(items[o], IntStr(Cardinality(GroupedUnder(items[o].key))))

(* C17 *)

\* the first non-empty value of field f among the releases of S, in source order
FirstNonEmpty(S, f) ==
    LET full == {i \in S : norm(releases[i][f]) # <<>>}
    IN IF full = {} THEN <<>>
       ELSE norm(releases[CHOOSE i \in full : \A j \in full : i <= j][f])

\* C17, as claimed: when several releases share one key, each optional field of
\* the emitted item (label, catno, format, country, image) is the first
\* non-empty value among those releases in source order.
C17_AsClaimed ==
    Returned =>
        \A o \in 1..Len(items) :
            LET S == GroupedUnder(items[o].key)
            IN /\ items[o].label = FirstNonEmpty(S, "label")
               /\ items[o].catno = FirstNonEmpty(S, "catno")
               /\ items[o].format = FirstNonEmpty(S, "format")
               /\ items[o].country = FirstNonEmpty(S, "country")
               /\ items[o].img = FirstNonEmpty(S, "image")

---------------------------------------------------------------------------
(* Claims about export_price_sheet main(), checked under SpecSheet *)

SheetDone == pc = "sheet_done"

Written == price_file.content

KeptRows == {i \in 1..Len(source_rows) : sheet_keeps(source_rows[i])}

SamePair(a, b) == Normal(a.artist) = Normal(b.artist) /\ Normal(a.title) = Normal(b.title)

KeyOf(r) == Normal(r.artist) \o <<"|","|">> \o Normal(r.title)

\* the release ids of the source rows of S, in source order, joined by blanks
IdsOf(S) ==
    Join(<<" ">>,
         [ n \in 1..Cardinality(S) |->
             Strip(source_rows[CHOOSE i \in S :
                                  Cardinality({j \in S : j < i}) = n - 1].release_id) ])

\* C15, as claimed: the kept source rows whose artist and title are equal after
\* lowercasing, trimming and whitespace collapsing collapse into exactly one
\* output row, whose qty is the number of those rows and whose
\* variant_release_ids lists their release ids in source order.
C15_AsClaimed ==
    SheetDone =>
        \A i \in KeptRows :
            LET class == {j \in KeptRows : SamePair(source_rows[i], source_rows[j])}
                outs == {o \in 1..Len(Written) : SamePair(Written[o], source_rows[i])}
            IN /\ Cardinality(outs) = 1
               /\ \A o \in outs :
                     /\ Written[o].qty = IntStr(Cardinality(class))
                     /\ Written[o].variant_release_ids = IdsOf(class)

\* C15, amended: the kept source rows whose key (normalized artist, "||",
\* normalized title) is equal collapse into exactly one output row, which
\* carries that key, whose qty is the number of those rows and whose
\* variant_release_ids lists their release ids in source order; the output has
\* no other row.
C15_Dedup ==
    SheetDone =>
        /\ \A i \in KeptRows :
              LET class == {j \in KeptRows : KeyOf(source_rows[i]) = KeyOf(source_rows[j])}
                  outs == {o \in 1..Len(Written) : Written[o].key = KeyOf(source_rows[i])}
              IN /\ Cardinality(outs) = 1
                 /\ \A o \in outs :
                       /\ Written[o].qty = IntStr(Cardinality(class))
                       /\ Written[o].variant_release_ids = IdsOf(class)
        /\ \A o \in 1..Len(Written) :
              \E i \in KeptRows : Written[o].key = KeyOf(source_rows[i])

\* two rows that differ in case and blanks only were kept and written as one row
\* of qty 2 with both ids
C15_Witness ==
    /\ SheetDone
    /\ \E i, j \in KeptRows :
          /\ i < j
          /\ source_rows[i].artist # source_rows[j].artist
          /\ source_rows[i].title # source_rows[j].title
          /\ SamePair(source_rows[i], source_rows[j])
          /\ \E o \in 1..Len(Written) :
                /\ Written[o].qty = <<"2">>
                /\ Written[o].variant_release_ids
                      = Strip(source_rows[i].release_id) \o <<" ">>
                        \o Strip(source_rows[j].release_id)

(* C18 *)

StartsWith(x, prefix) == Len(x) >= Len(prefix) /\ SubSeq(x, 1, Len(prefix)) = prefix

\* the rows that pass the tests on the release id and on artist / title
Usable == {i \in 1..Len(source_rows) :
              /\ Strip(source_rows[i].release_id) # <<>>
              /\ ~(Strip(source_rows[i].artist) = <<>> /\ Strip(source_rows[i].title) = <<>>)}

\* the usable rows whose folder tag starts with "for sale" in any letter case
ForSaleRows == {i \in Usable : StartsWith(Lower(Strip(source_rows[i].folder)), s_for_sale)}

\* C18, as claimed: a source row is kept if and only if its folder tag starts with
\* "for sale" compared case-insensitively: "For Sale" and "For Sale - LPs" are
\* both accepted, every other folder is dropped.  (Stated on the written rows:
\* each key is written with the number of such rows as its qty, and only then.)
C18_AsClaimed ==
    SheetDone =>
        /\ \A i \in ForSaleRows :
              \E o \in 1..Len(Written) :
                 /\ Written[o].key = KeyOf(source_rows[i])
                 /\ Written[o].qty =
                       IntStr(Cardinality({j \in ForSaleRows :
                                              KeyOf(source_rows[j]) = KeyOf(source_rows[i])}))
        /\ \A o \in 1..Len(Written) :
              \E i \in ForSaleRows : Written[o].key = KeyOf(source_rows[i])

---------------------------------------------------------------------------
(* Claims about apply_store_prices, checked under SpecBuild                *)

Applied == pc = "applied"

\* the fields of an override row that the merge is said to carry over
OverrideFields == {"price", "status", "condition", "sleeve_condition", "notes"}

\* the row of the pricing CSV names the item by its normalized artist and title
RowMatches(r, it) ==
    /\ Normal(r.artist) = Normal(it.artist)
    /\ Normal(r.title) = Normal(it.title)

\* the field f of the item after the merge is what row r and the item before
\* the merge make it: the row's cell when it is non-empty, the old value else
Merged(r, before, after, f) ==
    IF Strip(r[f]) # <<>>
    THEN ItemGet(after, f) \in {r[f], Strip(r[f])}
    ELSE ItemGet(after, f) = ItemGet(before, f)

\* C19: after apply_store_prices has run on the inventory the store builder
\* wrote, every item whose normalized artist and title match a row of the
\* override CSV has each non-empty override field of that row (price, status,
\* condition, sleeve_condition, notes) in place of its own value, and keeps its
\* own value where the row's field is empty.
C19_AsClaimed ==
    Applied =>
        \A i \in 1..Len(inv_raw) :
           \A k \in 1..Len(pricing_csv.content) :
              RowMatches(pricing_csv.content[k], inv_raw[i]) =>
                 \A f \in OverrideFields :
                    Merged(pricing_csv.content[k], inv_raw[i], inv_json.content[i], f)

---------------------------------------------------------------------------
(* Claims about the writers of store_inventory.json, checked under         *)
(* SpecBuild                                                               *)

\* the step is a write of store_inventory.json: the end of store.py main()
\* or the end of apply_store_prices main()
Overwrites ==
    \/ pc = "write" /\ pc' = "built"
    \/ pc = "apply" /\ pc' = "applied"

\* a backup file holds the content the inventory has now
BackedUp == \E b \in 1..Len(backups) : backups[b].v = inv_json.content

\* C20: whenever a script writes store_inventory.json while a file of that
\* name exists, a backup copy of the existing file, named with a timestamp
\* suffix, has been written before the file is overwritten.
C20_AsClaimed == [][(Overwrites /\ inv_json.exists) => BackedUp]_vars

---------------------------------------------------------------------------
(* Claims about create_single_square_grid, checked under SpecGrid          *)

GridDone == pc = "grid_done"

\* side is the smallest integer whose square is n or more
SmallestSide(side, n) ==
    /\ side * side >= n
    /\ \A k \in 0..n : k * k >= n => k >= side

\* the canvas is a square of side * tile pixels with side * side cells
SquareOf(canvas, side) ==
    /\ canvas.width = side * tile
    /\ canvas.height = side * tile
    /\ Len(canvas.cells) = side * side

\* C21, as worded: for a non-empty image list of length n the one file
\* written is a square of side ceil(sqrt(n)), and every one of its side * side
\* cells is filled, the first n with the input images in input order, the
\* others with images of the input list; for n = 0 no file is written.
C21_AsClaimed ==
    GridDone =>
        IF images = <<>> THEN files = <<>>
        ELSE /\ Len(files) = 1
             /\ SmallestSide(files[1].k.cols, Len(images))
             /\ files[1].k.rows = files[1].k.cols
             /\ SquareOf(files[1].v, files[1].k.cols)
             /\ \A c \in 1..Len(files[1].v.cells) :
                   IF c <= Len(images)
                   THEN files[1].v.cells[c] = images[c]
                   ELSE files[1].v.cells[c] \in Range(images)

\* C21: for a non-empty image list of length n the one file written is a
\* square of side ceil(sqrt(n)) (the smallest side with side * side >= n), of
\* side * tile pixels each way; its side * side cells are painted from a batch
\* whose first n entries are the input images in input order and whose other
\* entries are images of the input list; a cell holds its batch entry, or
\* stays background-coloured when that image cannot be opened.  For n = 0 no
\* file is written.
C21_Grid ==
    GridDone =>
        IF images = <<>> THEN files = <<>>
        ELSE /\ Len(files) = 1
             /\ SmallestSide(files[1].k.cols, Len(images))
             /\ files[1].k.rows = files[1].k.cols
             /\ SquareOf(files[1].v, files[1].k.cols)
             /\ Len(files[1].v.batch) = Len(files[1].v.cells)
             /\ SubSeq(files[1].v.batch, 1, Len(images)) = images
             /\ \A c \in 1..Len(files[1].v.cells) :
                   /\ files[1].v.batch[c] \in Range(images)
                   /\ files[1].v.cells[c] =
                         IF files[1].v.batch[c] \in unreadable
                         THEN Background ELSE files[1].v.batch[c]

\* five images, one file of them unreadable: a 3 x 3 grid with four padded
\* cells, some cells painted and some left background-coloured
C21_Witness ==
    /\ GridDone
    /\ Len(images) = 5
    /\ Len(files) = 1
    /\ files[1].k.cols = 3
    /\ \E c \in 1..9 : files[1].v.cells[c] = Background
    /\ \E c \in 6..9 : files[1].v.cells[c] # Background

---------------------------------------------------------------------------
(* Claims about the files main() writes, checked under SpecSlug            *)

\* main() has rendered its buckets
RenderDone == pc = "done" /\ big # <<>>

\* C22: the render loop of main() writes one file per final bucket: the
\* number of grid files written equals the number of buckets, no two bucket
\* labels end in the same file name {safe_slug(label)}_grid_{cols}x{rows}.jpg.
C22_AsClaimed == RenderDone => Len(files) = Len(big)

---------------------------------------------------------------------------
(* Claims about load_records, checked under SpecLoad                       *)

\* load_records has been called
Loaded == pc # "load"

\* the document carries the records array in one of the shapes the claim names
AcceptedShape == document \in {DocObject("records"), DocObject("items"),
                              DocObject("data"), DocArray}

\* C23: load_records accepts the document with a top-level records / items /
\* data array and the document that is the array itself: it raises no error
\* and returns the usable records of the array, the others being skipped.
C23_AsClaimed ==
    (Loaded /\ AcceptedShape) =>
        /\ pc # "raised"
        /\ records = load_records(records_src)

---------------------------------------------------------------------------
(* Claims about the retries of the catalog clients, checked under SpecHttp *)

HttpEnded == pc \in {"http_done", "http_raised"}

\* the answer is a network error or an HTTP 429
Failure(a) == a.status \in {0, 429}

\* every request of the call was answered by a network error or a 429
OnlyFailures == tries >= 1 /\ \A i \in 1..tries : Failure(replies[i])

\* C24: whatever network errors and 429 answers the catalog API gives, a call
\* of get_release, search_year_page or get_price_suggestions issues at most 3
\* requests and ends; when every attempt failed it returns the empty result
\* and raises nothing.
C24_AsClaimed ==
    /\ tries <= 3
    /\ (HttpEnded /\ OnlyFailures) => (pc = "http_done" /\ result = "empty")

\* the Retry-After header gives a number of seconds
Seconds(a) == py_int(a.retry_after)

\* C25: when a 429 answer carries Retry-After = k seconds, the next request of
\* the call is not issued before the call has slept k seconds or more.
C25_AsClaimed ==
    [][(/\ pc = "http_loop"
        /\ tries' = tries + 1
        /\ last.status = 429
        /\ Seconds(last).t = "int")
       => slept >= 1000 * Seconds(last).n]_vars

---------------------------------------------------------------------------
(* Claims about the cache of get_median, checked under SpecCache           *)

\* days between the fetch of a network response and the moment t
Age(json, t) == t - json

\* C26: a median get_median returns comes from a network response fetched no
\* more than ttl_days before the call, and no cache entry was stamped with a
\* time at which its response was older than ttl_days.
C26_AsClaimed ==
    /\ served # NotServed => Age(served.json, served.at) <= ttl_days
    /\ by_release # NoEntry => Age(by_release.json, by_release.ts) <= ttl_days
    /\ by_url # NoEntry => Age(by_url.json, by_url.ts) <= ttl_days

---------------------------------------------------------------------------
(* Claims about the order and the number of the covers in the buckets of   *)
(* main(), checked under SpecSlug.  The cover of the i-th record of the    *)
(* source list is file i.                                                  *)

\* the buckets of every stage of main(): the dicts, and misc as one more bucket
Buckets ==
    {e.v : e \in Range(genre_map) \cup Range(split) \cup Range(big)} \cup {misc}

\* the covers of xs are in the order of the source list
InSourceOrder(xs) == \A i \in 1..(Len(xs) - 1) : xs[i] < xs[i + 1]

\* the covers of xs that majority aggregation put into the bucket origin
FromBucket(xs, origin) ==
    LET from == Range(origin)
        Came(c) == c \in from
    IN SelectSeq(xs, Came)

RECURSIVE TotalLen(_)
TotalLen(d) == IF d = <<>> THEN 0 ELSE Len(Head(d).v) + TotalLen(Tail(d))

LoadedCovers == {records[i].img : i \in 1..Len(records)}

\* every loaded cover is in exactly one bucket of d, once, and d holds nothing else
Conserved(d) ==
    /\ TotalLen(d) = Len(records)
    /\ \A c \in LoadedCovers :
          Cardinality({k \in 1..Len(d) : c \in Range(d[k].v)}) = 1
    /\ \A e \in Range(d) : Range(e.v) \subseteq LoadedCovers

\* C29: of a non-empty list of loaded records every cover is in exactly one
\* bucket, once, after majority aggregation, after the composite split and
\* in the final buckets (Misc included), and there is a bucket to render.
C29_Conservation ==
    /\ AfterBuild => Conserved(genre_map)
    /\ AfterSplit => Conserved(split)
    /\ AfterMerge => (Conserved(big) /\ big # <<>>)

\* a run is over in which an artist's records were moved to the majority
\* genre, a composite bucket was split and tiny buckets went to Misc next to
\* a bucket of its own
C29_Witness ==
    /\ Finished
    /\ artist_major # <<>>
    /\ DictHas(split, s_Folk_World) /\ DictHas(split, s_Country)
    /\ DictHas(big, s_Misc) /\ Len(big) >= 2
    /\ \E i \in 1..Len(records) :
          records[i].artist # None /\ records[i].broad # final_genre(artist_major, records[i])

---------------------------------------------------------------------------
(* Claims about the runs of apply_store_prices, checked under SpecApply *)

\* the run that is just over returned 2
ErrorExit == pc' = "apply_failed"

\* C28, as claimed: after any sequence of runs of apply_store_prices (two
\* runs in the same clock second included) there is, for each run that
\* overwrote store_inventory.json, a backup file whose content is the
\* inventory as it was right before that run; and a run that exits with an
\* error writes no file at all.
C28_AsClaimed ==
    /\ [](\A r \in 1..Len(runs) :
             runs[r].code = 0 =>
                \E b \in 1..Len(backups) : backups[b].v = runs[r].before.content)
    /\ [][ErrorExit => (inv_json' = inv_json /\ backups' = backups)]_vars

\* the item as the first run that wrote the inventory found it
Original(i) ==
    LET wrote == {r \in 1..Len(runs) : runs[r].code = 0}
    IN IF wrote = {} THEN inv_json.content[i]
       ELSE runs[CHOOSE r \in wrote : \A q \in wrote : r <= q].before.content[i]

\* occurrences of sub in s
Occurrences(sub, s) ==
    Cardinality({i \in 1..(Len(s) - Len(sub) + 1) : SubSeq(s, i, i + Len(sub) - 1) = sub})

\* the id an item is matched by
item_rid(it) ==
    IF Strip(ItemGet(it, "variant_release_ids")) # <<>>
    THEN Strip(ItemGet(it, "variant_release_ids"))
    ELSE Strip(ItemGet(it, "release_id"))

\* the run finds the pricing CSV of the run before it, which wrote the inventory
SameCsvAgain == pc = "applied" /\ pc' = "applied" /\ pricing_csv' = pricing_csv

\* the notes are the earlier notes, or the earlier notes, without the blanks
\* around them, followed by the marker
NotesKept(old, new) ==
    \/ new = old
    \/ Strip(old) = <<>> /\ new = s_marker
    \/ Strip(old) # <<>> /\ new = Strip(old) \o <<" ","|"," ">> \o s_marker

\* C30, as claimed: a second run with the same CSV leaves the items as the
\* first run left them; an item no row matches is never changed; after any
\* number of runs the marker occurs at most once in an item's notes and the
\* notes the item had before are still there.
C30_AsClaimed ==
    /\ [][SameCsvAgain => inv_json' = inv_json]_vars
    /\ [][(pc' = "applied") =>
             \A i \in 1..Len(inv_json.content) :
                ~DictHas(price_map', item_rid(inv_json.content[i]))
                   => inv_json'.content[i] = inv_json.content[i]]_vars
    /\ [](inv_json.exists /\ IsItemsList(inv_json.content) =>
             \A i \in 1..Len(inv_json.content) :
                /\ Occurrences(s_marker, ItemGet(inv_json.content[i], "notes")) <= 1
                /\ NotesKept(ItemGet(Original(i), "notes"),
                             ItemGet(inv_json.content[i], "notes")))

====
